---- MODULE Spec2Model ----
(***************************************************************************)
(* The statistical simulation engine of the statistics-learning backend:   *)
(* the five simulation variants built on BaseSimulation (Pi-Estimation,    *)
(* CLT sampler, one-sample t-test, one-proportion z-test, Bag-Draw) and    *)
(* the HTTP route run_simulation that serves simulations; and the lesson   *)
(* progress routes (start_lesson, complete_lesson) with the per-user       *)
(* registry of server-sent-event queues they publish to.                   *)
(*                                                                         *)
(* Numbers.  The configured ceilings and the literals of the source        *)
(* (2000000 trials, 1000 points per checkpoint, ...) are far beyond what   *)
(* can be enumerated, so every such number is given here at a small scale  *)
(* that keeps the order relations of the source (default <= cap <= max).   *)
(* Each scaled definition names the source literal it stands for.          *)
(*                                                                         *)
(* Random engines.  numpy's Generator and Python's random module are       *)
(* deterministic functions of their internal state.  An engine is modelled *)
(* by its state, a number below RngModulus; a draw advances the state by a *)
(* full-period congruential step and outputs the state's high bits, a grid *)
(* value in 0..Grid-1 standing for the real k/Grid of [0,1).  Seeding with *)
(* None takes the state from system entropy: any state of EntropyPool.     *)
(*                                                                         *)
(* Python values.  None, and a key missing from a parameter dict (which    *)
(* dict.get turns into the default), are the value None.  Fractions that   *)
(* the code holds as floats are kept exact as [num, den] records or in     *)
(* fixed units; round(x, 6) is modelled on millionths.                     *)
(***************************************************************************)
EXTENDS Integers, Sequences, FiniteSets, TLC

VARIABLES
    inst,      \* simulation objects: slot -> instance (BaseSimulation subclass)
    grng,      \* state of the process-wide generator of module random
    gdraws,    \* number of draws taken from the process-wide generator
    reqs,      \* responses of run_simulation requests, in completion order
    progress,  \* table user_progress: <<user_id, lesson_id>> -> row
    subs,      \* the registry _subs: user_id -> set of queues
    queues,    \* the asyncio queues created by subscribe, by identity
    calls,     \* start_lesson / complete_lesson requests, in arrival order
    next_step, \* the get_next_step request served last, with its response
    quiz,      \* the submit_quiz request served last, with its response
    effect     \* the effect size interpreted last, with its interpretation

\* the simulation engine, its route and the quiz route
sims == <<inst, grng, gdraws, reqs, quiz, effect>>

\* the progress routes and the event registry
web == <<progress, subs, queues, calls, next_step>>

vars == <<inst, grng, gdraws, reqs, progress, subs, queues, calls,
          next_step, quiz, effect>>

-----------------------------------------------------------------------------
(* Bounds of the model *)

\* runs of one instance
MaxRuns == 2
\* largest integer seed handed to a constructor
MaxSeed == 1
\* entropy states an unseeded engine can start from
NumEntropy == 2
\* largest trial count / sample count offered as an input
TopCount == 6
\* HTTP requests served
MaxReqs == 2
\* start_lesson / complete_lesson requests received
MaxCalls == 2
\* event-stream connections opened
MaxQueues == 2

None == 0 - 99

-----------------------------------------------------------------------------
(* Configuration and literals of the source, scaled *)

\* settings.MAX_SIMULATION_TRIALS (2000000)
MAX_SIMULATION_TRIALS == 5
\* settings.MAX_SIMULATION_REPLICATES (10000)
MAX_SIMULATION_REPLICATES == 4
\* CLT sample_size upper limit (1000)
MAX_SAMPLE_SIZE == 2
\* Pi default trials (10000)
PI_DEFAULT_TRIALS == 3
\* Pi default batch cap (100000)
PI_BATCH_CAP == 2
\* Pi checkpoint cadence (1000)
PI_CHECKPOINT == 2
\* Pi largest first batch whose points are sampled (1000)
PI_SAMPLE_BATCH_LIMIT == 2
\* Pi sample points kept (100)
PI_SAMPLE_POINTS == 1
\* Pi running estimates kept (50)
PI_KEEP_LAST == 2
\* CLT default sample_size (30)
CLT_DEFAULT_SAMPLE_SIZE == 2
\* CLT default num_samples (1000)
CLT_DEFAULT_NUM_SAMPLES == 2
\* CLT sample means returned at most (1000)
CLT_SERIES_CAP == 2
\* CLT largest num_samples tested with Shapiro-Wilk (5000)
CLT_SHAPIRO_LIMIT == 3
\* the fewest values scipy.stats.shapiro accepts (3, not scaled)
SHAPIRO_MIN == 3
\* route, coin flip: default num_flips (100)
COIN_DEFAULT_FLIPS == 2
\* route, coin flip: most flips served (10000)
COIN_MAX_FLIPS == 3
\* route, CLT: default sample_size (30)
ROUTE_DEFAULT_SAMPLE_SIZE == 2
\* route, CLT: largest sample_size served (1000)
ROUTE_MAX_SAMPLE_SIZE == 2
\* route, CLT: default num_samples (100)
ROUTE_DEFAULT_NUM_SAMPLES == 2
\* route, CLT: most samples served (5000)
ROUTE_MAX_NUM_SAMPLES == 3
\* route, CLT: sample means displayed (50)
ROUTE_DISPLAY == 2
\* Bag-Draw default draws (2, not scaled)
BAG_DEFAULT_DRAWS == 2
\* Bag-Draw default trials (10000)
BAG_DEFAULT_TRIALS == 2
\* Bag-Draw sequences kept by most_common (10)
BAG_TOP_SEQUENCES == 2

-----------------------------------------------------------------------------
(* Generic helpers *)

Min(a, b) == IF a < b THEN a ELSE b

Max(a, b) == IF a > b THEN a ELSE b

\* dict.get(key, default) on a value that is None when the key is missing
Get(v, default) == IF v = None THEN default ELSE v

\* the same for a string value, "" when the key is missing
GetStr(v, default) == IF v = "" THEN default ELSE v

\* sum of a sequence of integers
RECURSIVE SumSeq(_)
SumSeq(s) == IF s = <<>> THEN 0 ELSE Head(s) + SumSeq(Tail(s))

\* a slice that keeps the first n elements instead: s[:n]
LastNFromFront(s, n) ==
    IF Len(s) <= n THEN s ELSE SubSeq(s, 1, n)

\* the last n elements of a sequence: s[-n:]
LastN(s, n) ==
    IF Len(s) <= n THEN s ELSE SubSeq(s, Len(s) - n + 1, Len(s))

\* a slice that keeps one element too many: s[:n + 1]
FirstNOffByOne(s, n) ==
    IF Len(s) <= n + 1 THEN s ELSE SubSeq(s, 1, n + 1)

\* the first n elements of a sequence: s[:n]
FirstN(s, n) ==
    IF Len(s) <= n THEN s ELSE SubSeq(s, 1, n)

\* round(num/den, digits) as an integer number of units 1/scale, ties to
\* even (num >= 0, den > 0, scale = 10^digits)
RoundAt(num, den, scale) ==
    LET scaled == num * scale
        q == scaled \div den
        r == scaled % den
    IN  IF 2 * r > den \/ (2 * r = den /\ q % 2 = 1) THEN q + 1 ELSE q

\* round(x, 6) in millionths
Round6(num, den) == RoundAt(num, den, 1000000)

\* round(x, 4) in ten-thousandths
Round4(num, den) == RoundAt(num, den, 10000)

-----------------------------------------------------------------------------
(* Random engines *)

RngModulus == 16

Grid == 4

\* one step of the bit generator
RngNext(s) == (5 * s + 3) % RngModulus

\* the value output after stepping to state s
RngOut(s) == s \div (RngModulus \div Grid)

\* the engine state a given integer seed leads to
SeedState(seed) == (11 * seed + 6) % RngModulus

\* the states system entropy can give
EntropyPool == { (7 * k + 5) % RngModulus : k \in 0..(NumEntropy - 1) }

\* np.random.default_rng(seed): the possible initial states
DefaultRngIgnoringSeed(seed) == EntropyPool

default_rng(seed) ==
    IF seed = None THEN EntropyPool ELSE { SeedState(seed) }

\* n consecutive outputs drawn from state s
RECURSIVE RngTake(_, _)
RngTake(s, n) ==
    IF n <= 0 THEN <<>>
    ELSE <<RngOut(RngNext(s))>> \o RngTake(RngNext(s), n - 1)

\* the state after n draws from state s
RECURSIVE RngSkip(_, _)
RngSkip(s, n) ==
    IF n <= 0 THEN s ELSE RngSkip(RngNext(s), n - 1)

-----------------------------------------------------------------------------
(* BaseSimulation *)

\* a slot in which no object has been constructed yet
NoParams == [unused |-> None]

NoLoc == [unused |-> None]

NoOut == [status |-> "none"]

\* kind: the subclass; seed: the constructor argument; rng: self.rng;
\* runs: completed calls of run; pc: where the current call of run stands;
\* params, loc: the arguments and locals of the current call; drawn: the
\* number of values the current (or last) call has taken from self.rng;
\* out: what the last call returned or raised; first: the same for the
\* first call.
Unbuilt ==
    [kind |-> "none", seed |-> None, rng |-> 0, runs |-> 0, pc |-> "unbuilt",
     params |-> NoParams, loc |-> NoLoc, drawn |-> 0,
     out |-> NoOut, first |-> NoOut]

\* BaseSimulation.__init__: the object owns an engine made from the seed
NewSimulation(kind, seed, state) ==
    [kind |-> kind, seed |-> seed, rng |-> state, runs |-> 0, pc |-> "idle",
     params |-> NoParams, loc |-> NoLoc, drawn |-> 0,
     out |-> NoOut, first |-> NoOut]

\* an exception leaving run: nothing is returned.  by is the function that
\* raises it; the message of validate_params is given by the name of the
\* parameter it begins with.
Raised(error, by, message) ==
    [status |-> "raised", error |-> error, by |-> by, message |-> message]

\* a result whose metrics were not filled in
ReturnedEmptyMetrics(meta, series, metrics) ==
    [status |-> "returned",
     envelope |-> [meta |-> meta, series |-> series, metrics |-> <<>>]]

\* SimulationResult(meta=..., series=..., metrics=...) returned by run
Returned(meta, series, metrics) ==
    [status |-> "returned",
     envelope |-> [meta |-> meta, series |-> series, metrics |-> metrics]]

\* the range test of validate_params for one value
OutOfRangeOffByOne(value, min_val, max_val) ==
    value <= min_val \/ value > max_val

OutOfRange(value, min_val, max_val) ==
    value < min_val \/ value > max_val

\* validate_params: the names of the constrained parameters, in the order of
\* the constraints dict, that are present and out of range; the first one is
\* the one the ValueError names.  constraints is a sequence of
\* [name, min, max]; params a record.
ValidateParams(params, constraints) ==
    SelectSeq(constraints,
        LAMBDA c : c.name \in DOMAIN params
                   /\ OutOfRange(params[c.name], c.min, c.max))

\* run is entered with the parameter dict p
EnterRun(self, p) ==
    [self EXCEPT !.params = p, !.drawn = 0, !.out = NoOut]

\* run has ended: the outcome is kept, the first one of the object as well
EndRun(self, outcome) ==
    [self EXCEPT !.pc = "idle", !.loc = NoLoc, !.out = outcome,
                 !.runs = self.runs + 1,
                 !.first = IF self.runs = 0 THEN outcome ELSE self.first]

-----------------------------------------------------------------------------
(* PiDartsSimulation.run *)

\* the point (x, y) of the grid lies in the unit circle: r_squared <= 1.0
InsideCircle(x, y) == x * x + y * y <= Grid * Grid

\* range(0, trials, batch_size) still yields batch_start
PiInRange(l) == l.batch_size > 0 /\ l.batch_start < l.trials

\* parameter extraction, validation and the set-up of the loop
PiBegin(self0, p) ==
    LET self == EnterRun(self0, p)
        trials == Get(p.trials, PI_DEFAULT_TRIALS)
        batch_size == Get(p.batch_size, Min(trials, PI_BATCH_CAP))
        bad == ValidateParams([trials |-> trials],
                   <<[name |-> "trials", min |-> 1,
                      max |-> MAX_SIMULATION_TRIALS]>>)
    IN  IF bad # <<>>
        THEN EndRun(self, Raised("ValueError", "validate_params", bad[1].name))
        ELSE IF batch_size = 0
        THEN EndRun(self, Raised("ValueError", "range",
                 "range() arg 3 must not be zero"))
        ELSE [self EXCEPT !.pc = "pi_loop",
                 !.loc = [trials |-> trials, batch_size |-> batch_size,
                          batch_start |-> 0, inside_count |-> 0,
                          running_estimates |-> <<>>,
                          sample_points |-> <<>>]]

\* one iteration of the batch loop
PiBatchStep(self) ==
    LET l == self.loc
        batch_end == Min(l.batch_start + l.batch_size, l.trials)
        batch_trials == batch_end - l.batch_start
        x == RngTake(self.rng, batch_trials)
        y == RngTake(RngSkip(self.rng, batch_trials), batch_trials)
        batch_inside ==
            Cardinality({i \in 1..batch_trials : InsideCircle(x[i], y[i])})
        inside_count == l.inside_count + batch_inside
        sample_points ==
            IF l.batch_start = 0 /\ batch_trials <= PI_SAMPLE_BATCH_LIMIT
            THEN [i \in 1..Min(PI_SAMPLE_POINTS, batch_trials) |->
                     [x |-> x[i], y |-> y[i],
                      inside |-> InsideCircle(x[i], y[i])]]
            ELSE l.sample_points
        running_estimates ==
            IF batch_end % PI_CHECKPOINT = 0 \/ batch_end = l.trials
            THEN Append(l.running_estimates,
                     [n |-> batch_end,
                      estimate |-> [num |-> 4 * inside_count,
                                    den |-> batch_end]])
            ELSE l.running_estimates
    IN  [self EXCEPT !.rng = RngSkip(self.rng, 2 * batch_trials),
            !.drawn = self.drawn + 2 * batch_trials,
            !.loc = [l EXCEPT !.batch_start = l.batch_start + l.batch_size,
                              !.inside_count = inside_count,
                              !.sample_points = sample_points,
                              !.running_estimates = running_estimates]]

\* the final calculation and the result.  absolute_error,
\* relative_error_pct and confidence_interval_95 are irrational (pi, sqrt)
\* and are left out of metrics; actual_pi is round(pi, 6) in millionths.
PiEnd(self) ==
    LET l == self.loc
    IN  EndRun(self, Returned(
            [simulation |-> "pi_darts", trials |-> l.trials,
             seed |-> self.params.seed],
            [running_estimates |-> LastN(l.running_estimates, PI_KEEP_LAST),
             sample_points |-> l.sample_points],
            [pi_estimate |-> Round6(4 * l.inside_count, l.trials),
             actual_pi |-> 3141593,
             points_inside |-> l.inside_count,
             points_total |-> l.trials,
             proportion_inside |-> Round6(l.inside_count, l.trials)]))

-----------------------------------------------------------------------------
(* BagDrawSimulation.run *)

\* A colors dict is a sequence of [color, count] in insertion order, and so
\* is every Counter and every dict of probabilities ([key, value]).

\* the default bag {'red': 5, 'blue': 3, 'green': 2}, scaled
BAG_DEFAULT_COLORS ==
    <<[color |-> "red", count |-> 2], [color |-> "blue", count |-> 1],
      [color |-> "green", count |-> 1]>>

\* sum(colors.values())
RECURSIVE SumCounts(_)
SumCounts(colors) ==
    IF colors = <<>> THEN 0
    ELSE Head(colors).count + SumCounts(Tail(colors))

\* [color] * count
RECURSIVE Repeat(_, _)
Repeat(c, n) == IF n <= 0 THEN <<>> ELSE <<c>> \o Repeat(c, n - 1)

\* the flat array of labelled items
RECURSIVE BuildBag(_)
BuildBag(colors) ==
    IF colors = <<>> THEN <<>>
    ELSE Repeat(Head(colors).color, Head(colors).count)
         \o BuildBag(Tail(colors))

\* the sequence s without its element i
RemoveAt(s, i) == SubSeq(s, 1, i - 1) \o SubSeq(s, i + 1, Len(s))

\* the index a uniform grid value selects among n items: floor(u * n)
PickIndex(o, n) == ((o * n) \div Grid) + 1

\* a choice that puts every drawn item back, whatever replace says
RECURSIVE ChoiceAlwaysReplacing(_, _, _)
ChoiceAlwaysReplacing(bag, os, replace) ==
    IF os = <<>> THEN <<>>
    ELSE <<bag[PickIndex(Head(os), Len(bag))]>>
         \o ChoiceAlwaysReplacing(bag, Tail(os), replace)

\* rng.choice(bag, size=k, replace=...): the items selected by the outputs os
RECURSIVE Choice(_, _, _)
Choice(bag, os, replace) ==
    IF os = <<>> THEN <<>>
    ELSE LET i == PickIndex(Head(os), Len(bag))
         IN  <<bag[i]>> \o Choice(IF replace THEN bag ELSE RemoveAt(bag, i),
                                  Tail(os), replace)

\* counter[key] += 1
IncCount(counter, key) ==
    IF \E j \in 1..Len(counter) : counter[j].key = key
    THEN [j \in 1..Len(counter) |->
             IF counter[j].key = key
             THEN [counter[j] EXCEPT !.n = counter[j].n + 1]
             ELSE counter[j]]
    ELSE Append(counter, [key |-> key, n |-> 1])

\* Counter(keys)
RECURSIVE CounterOf(_)
CounterOf(keys) ==
    IF keys = <<>> THEN <<>>
    ELSE IncCount(CounterOf(SubSeq(keys, 1, Len(keys) - 1)), keys[Len(keys)])

\* insertion of e into a sequence sorted by count, largest first, behind
\* the elements of equal count (sorted() is stable)
RECURSIVE InsertByCount(_, _)
InsertByCount(sorted, e) ==
    IF sorted = <<>> THEN <<e>>
    ELSE IF Head(sorted).n >= e.n
         THEN <<Head(sorted)>> \o InsertByCount(Tail(sorted), e)
         ELSE <<e>> \o sorted

\* Counter.most_common(): by count, largest first, ties in insertion order
RECURSIVE SortByCount(_)
SortByCount(counter) ==
    IF counter = <<>> THEN <<>>
    ELSE InsertByCount(SortByCount(SubSeq(counter, 1, Len(counter) - 1)),
                       counter[Len(counter)])

\* the first n keys in insertion order, unsorted
MostCommonUnsorted(counter, n) == FirstN(counter, n)

\* Counter.most_common(n)
MostCommon(counter, n) == FirstN(SortByCount(counter), n)

\* set(seq)
Range(s) == { s[i] : i \in 1..Len(s) }

\* a sum that counts each key once, whatever its count
SumNCountingKeys(counter) == Len(counter)

\* sum(count for key, count in counter.items())
RECURSIVE SumN(_)
SumN(counter) ==
    IF counter = <<>> THEN 0 ELSE Head(counter).n + SumN(Tail(counter))

\* a draws check that lets zero draws through
BagTooFewDrawsLax(draws) == draws < 0

\* if draws <= 0
BagTooFewDraws(draws) == draws <= 0

\* parameter extraction, validation and the construction of the bag;
\* p.has_colors tells whether 'colors' is a key of params, replacement is
\* 0 (False) or 1 (True)
BagBegin(self0, p) ==
    LET self == EnterRun(self0, p)
        colors == IF p.has_colors THEN p.colors ELSE BAG_DEFAULT_COLORS
        draws == Get(p.draws, BAG_DEFAULT_DRAWS)
        replacement == Get(p.replacement, 0)
        trials == Get(p.trials, BAG_DEFAULT_TRIALS)
    IN  IF colors = <<>> \/ SumCounts(colors) = 0
        THEN EndRun(self, Raised("ValueError", "run",
                 "Bag must contain at least one item"))
        ELSE IF BagTooFewDraws(draws)
        THEN EndRun(self, Raised("ValueError", "run", "Must draw at least one item"))
        ELSE IF replacement = 0 /\ draws > SumCounts(colors)
        THEN EndRun(self, Raised("ValueError", "run",
                 "Cannot draw more items than in bag without replacement"))
        ELSE [self EXCEPT !.pc = "bag_loop",
                 !.loc = [colors |-> colors, draws |-> draws,
                          replacement |-> replacement, trials |-> trials,
                          bag |-> BuildBag(colors), t |-> 0,
                          outcomes |-> <<>>, sequence_counts |-> <<>>]]

\* range(trials) still yields a trial
BagInRange(l) == l.t < l.trials

\* one trial of the loop
BagTrialStep(self) ==
    LET l == self.loc
        drawn == Choice(l.bag, RngTake(self.rng, l.draws), l.replacement # 0)
    IN  [self EXCEPT !.rng = RngSkip(self.rng, l.draws),
            !.drawn = self.drawn + l.draws,
            !.loc = [l EXCEPT !.t = l.t + 1,
                        !.outcomes = Append(l.outcomes, drawn),
                        !.sequence_counts = IncCount(l.sequence_counts, drawn)]]

\* {color: round(count / trials, 4)} of a Counter
BagProbs(counter, trials) ==
    [j \in 1..Len(counter) |->
        [key |-> counter[j].key, value |-> Round4(counter[j].n, trials)]]

\* d[key] = value on a dict kept as the sequence of its items in insertion
\* order: an existing key keeps its place and takes the new value
DictSet(d, key, value) ==
    IF \E j \in 1..Len(d) : d[j].key = key
    THEN [j \in 1..Len(d) |->
             IF d[j].key = key THEN [d[j] EXCEPT !.value = value] ELSE d[j]]
    ELSE Append(d, [key |-> key, value |-> value])

\* f"{color1} then {color2}"
BagPairKey(color1, color2) == color1 \o " then " \o color2

\* the first k assignments exact_probs[key] = round(prob, 4) of the two
\* nested loops over the colors
RECURSIVE BagExactProbsUpTo(_, _, _)
BagExactProbsUpTo(colors, total_items, k) ==
    IF k = 0 THEN <<>>
    ELSE LET c1 == colors[((k - 1) \div Len(colors)) + 1]
             c2 == colors[((k - 1) % Len(colors)) + 1]
         IN  DictSet(BagExactProbsUpTo(colors, total_items, k - 1),
                     BagPairKey(c1.color, c2.color),
                     IF c1.color = c2.color
                     THEN Round4(c1.count * (c1.count - 1),
                                 total_items * (total_items - 1))
                     ELSE Round4(c1.count * c2.count,
                                 total_items * (total_items - 1)))

\* the exact probability of every ordered pair of colors, two draws
\* without replacement
BagExactProbs(colors, total_items) ==
    BagExactProbsUpTo(colors, total_items, Len(colors) * Len(colors))

\* the statistics and the result; count / trials raises ZeroDivisionError
\* when trials is 0 (p_all_same is the first such division reached).
\* exact_probabilities None is the empty sequence; most_likely_sequence is
\* the one-element prefix of top_sequences (its sequence and probability).
BagEnd(self) ==
    LET l == self.loc
        total_items == Len(l.bag)
        first_draw_counts ==
            CounterOf([j \in 1..Len(l.outcomes) |-> l.outcomes[j][1]])
        position_probs ==
            [pos \in 1..l.draws |->
                BagProbs(CounterOf([j \in 1..Len(l.outcomes) |->
                                       l.outcomes[j][pos]]), l.trials)]
        theoretical_first ==
            [j \in 1..Len(l.colors) |->
                [key |-> l.colors[j].color,
                 value |-> Round4(l.colors[j].count, total_items)]]
        top_sequences == MostCommon(l.sequence_counts, BAG_TOP_SEQUENCES)
        all_same_count ==
            SumN(SelectSeq(l.sequence_counts,
                     LAMBDA e : Cardinality(Range(e.key)) = 1))
        all_different_count ==
            IF l.draws <= Len(l.colors)
            THEN SumN(SelectSeq(l.sequence_counts,
                          LAMBDA e : Cardinality(Range(e.key)) = l.draws))
            ELSE 0
    IN  IF l.trials = 0
        THEN EndRun(self, Raised("ZeroDivisionError", "run", "division by zero"))
        ELSE EndRun(self, Returned(
            [simulation |-> "bag_draw", bag_contents |-> l.colors,
             total_items |-> total_items, draws |-> l.draws,
             replacement |-> l.replacement, trials |-> l.trials],
            [position_probabilities |-> position_probs,
             top_sequences |->
                [j \in 1..Len(top_sequences) |->
                    [sequence |-> top_sequences[j].key,
                     count |-> top_sequences[j].n,
                     probability |-> [num |-> top_sequences[j].n,
                                      den |-> l.trials]]]],
            [first_draw_probabilities |->
                [empirical |-> BagProbs(first_draw_counts, l.trials),
                 theoretical |-> theoretical_first],
             special_events |->
                [all_same_color |-> Round4(all_same_count, l.trials),
                 all_different_colors |->
                    Round4(all_different_count, l.trials)],
             exact_probabilities |->
                IF l.replacement = 0 /\ l.draws = 2
                THEN BagExactProbs(l.colors, total_items)
                ELSE <<>>,
             unique_sequences_found |-> Len(l.sequence_counts),
             most_likely_sequence |-> FirstN(top_sequences, 1)]))

-----------------------------------------------------------------------------
(* CLTSimulation.run *)

\* Sample values are kept in units of 1/Grid.  rng.uniform(a, b) is
\* a + (b - a) * u.  The exponential and binomial samplers of numpy are
\* given by their quantiles at the grid values u = 0, 1/4, 1/2, 3/4:
\* -ln(1 - u) for scale 1 and Binomial(10, 0.5).
ExpQuantile(o) == <<0, 1, 3, 6>>[o + 1]

BinomialQuantile(o) == <<0, 16, 20, 24>>[o + 1]

\* one sample value, from one output o of the engine
CltValue(distribution, dp, o) ==
    CASE distribution = "uniform" ->
            Grid * Get(dp.a, 0) + (Get(dp.b, 1) - Get(dp.a, 0)) * o
      [] distribution = "exponential" -> Get(dp.scale, 1) * ExpQuantile(o)
      [] OTHER -> BinomialQuantile(o)

\* the closed-form mean of the family, a fraction
CltTrueMean(distribution, dp) ==
    CASE distribution = "uniform" ->
            [num |-> Get(dp.a, 0) + Get(dp.b, 1), den |-> 2]
      [] distribution = "exponential" -> [num |-> Get(dp.scale, 1), den |-> 1]
      [] OTHER -> [num |-> 10, den |-> 2]

\* the closed-form variance of the family, a fraction
CltTrueVar(distribution, dp) ==
    CASE distribution = "uniform" ->
            [num |-> (Get(dp.b, 1) - Get(dp.a, 0))
                     * (Get(dp.b, 1) - Get(dp.a, 0)), den |-> 12]
      [] distribution = "exponential" ->
            [num |-> Get(dp.scale, 1) * Get(dp.scale, 1), den |-> 1]
      [] OTHER -> [num |-> 10, den |-> 4]

\* parameter extraction and validation
CltBegin(self0, p) ==
    LET self == EnterRun(self0, p)
        sample_size == Get(p.sample_size, CLT_DEFAULT_SAMPLE_SIZE)
        num_samples == Get(p.num_samples, CLT_DEFAULT_NUM_SAMPLES)
        bad == ValidateParams(
                   [sample_size |-> sample_size, num_samples |-> num_samples],
                   <<[name |-> "sample_size", min |-> 1,
                      max |-> MAX_SAMPLE_SIZE],
                     [name |-> "num_samples", min |-> 1,
                      max |-> MAX_SIMULATION_REPLICATES]>>)
    IN  IF bad # <<>>
        THEN EndRun(self, Raised("ValueError", "validate_params", bad[1].name))
        ELSE [self EXCEPT !.pc = "clt_sample",
                 !.loc = [distribution |-> GetStr(p.distribution, "uniform"),
                          sample_size |-> sample_size,
                          num_samples |-> num_samples,
                          dist_params |-> p.dist_params]]

CltKnown == {"uniform", "exponential", "binomial"}

\* the samples, the sample means and the result.  strict tells whether the
\* installed scipy.stats.shapiro raises ValueError for fewer than SHAPIRO_MIN
\* values (older releases) or returns nan (newer ones).  theoretical_se is
\* given by its square; observed_se, se_error_pct, the normality test, the
\* percentiles, the histogram and the normal curve are irrational functions
\* of the sample means and are left out.
CltSampleStep(self, strict) ==
    LET l == self.loc
        n == l.num_samples * l.sample_size
        os == RngTake(self.rng, n)
        row(r) == [c \in 1..l.sample_size |->
                      CltValue(l.distribution, l.dist_params,
                               os[(r - 1) * l.sample_size + c])]
        sample_means ==
            [r \in 1..l.num_samples |->
                [num |-> SumSeq(row(r)), den |-> Grid * l.sample_size]]
        true_mean == CltTrueMean(l.distribution, l.dist_params)
        drew == [self EXCEPT !.rng = RngSkip(self.rng, n),
                             !.drawn = self.drawn + n]
    IN  IF l.distribution \notin CltKnown
        THEN EndRun(self, Raised("ValueError", "run", "Unknown distribution"))
        ELSE IF l.num_samples <= CLT_SHAPIRO_LIMIT
                /\ l.num_samples < SHAPIRO_MIN /\ strict
        THEN EndRun(drew, Raised("ValueError", "shapiro",
                 "Data must be at least length 3"))
        ELSE EndRun(drew, Returned(
            [simulation |-> "clt", distribution |-> l.distribution,
             sample_size |-> l.sample_size, num_samples |-> l.num_samples,
             dist_params |-> l.dist_params],
            [sample_means |-> FirstN(sample_means, CLT_SERIES_CAP)],
            [theoretical_mean |-> true_mean,
             theoretical_se |->
                [squared |->
                    [num |-> CltTrueVar(l.distribution, l.dist_params).num,
                     den |-> CltTrueVar(l.distribution, l.dist_params).den
                             * l.sample_size]],
             observed_mean |->
                [num |-> SumSeq([r \in 1..l.num_samples |->
                                    sample_means[r].num]),
                 den |-> Grid * l.sample_size * l.num_samples]]))

-----------------------------------------------------------------------------
(* The two hypothesis tests *)

Sign(x) == IF x > 0 THEN 1 ELSE IF x < 0 THEN 0 - 1 ELSE 0

\* A test statistic is [sign, inf]: its sign and whether it is infinite; its
\* finite magnitude is irrational and not kept.  The p-value of a statistic
\* under an alternative is kept when it is one of 0, 1/2, 1 (in percent) and
\* is "open" (strictly between 0 and 1, not 1/2) otherwise: the values of
\* the t and normal distribution functions at 0 and at infinity.
PValue(stat, alternative) ==
    CASE stat.sign = 0 ->
            IF alternative = "two-sided" THEN [known |-> TRUE, pct |-> 100]
            ELSE [known |-> TRUE, pct |-> 50]
      [] stat.inf ->
            IF (alternative = "less" /\ stat.sign > 0)
               \/ (alternative = "greater" /\ stat.sign < 0)
            THEN [known |-> TRUE, pct |-> 100]
            ELSE [known |-> TRUE, pct |-> 0]
      [] OTHER -> [known |-> FALSE, pct |-> 0]

\* a decision that also rejects when the p-value equals alpha
RejectNullAtMost(p_value, alpha_pct, below) ==
    IF p_value.known THEN p_value.pct <= alpha_pct ELSE below

\* reject_null = p_value < alpha; below tells the answer for an open p-value
RejectNull(p_value, alpha_pct, below) ==
    IF p_value.known THEN p_value.pct < alpha_pct ELSE below

\* a chain of tests that ends in a plain else (no unknown alternative)
AlternativesLax == {"two-sided", "greater", "less", "sideways"}

\* the alternatives the if / elif chain of both tests knows
Alternatives == {"two-sided", "greater", "less"}

\* a sample size check that lets a sample of one through
TTestTooSmallLax(n) == n < 1

\* if n <= 1
TTestTooSmall(n) == n <= 1

\* OneSampleTTestSimulation.run.  p.has_data tells whether 'data' is a key
\* of params.  alpha is in percent.  The sample standard deviation is given
\* by the numerator of its square, n * sum(x^2) - sum(x)^2 over n * (n - 1).
\* The critical values, the confidence interval, the effect size, the
\* power and the plotted curves are irrational and are left out.
TTestRun(self0, p, below) ==
    LET self == EnterRun(self0, p)
        alpha == Get(p.alpha, 5)
        mu0 == Get(p.mu0, 0)
        alternative == GetStr(p.alternative, "two-sided")
        n == IF p.has_data THEN Len(p.data) ELSE p.n
        \* the sample mean as a fraction
        mean == IF p.has_data
                THEN [num |-> SumSeq(p.data), den |-> Len(p.data)]
                ELSE [num |-> p.sample_mean, den |-> 1]
        \* the sign of the sample standard deviation
        std_sign ==
            IF p.has_data
            THEN Sign(n * SumSeq([j \in 1..n |-> p.data[j] * p.data[j]])
                      - SumSeq(p.data) * SumSeq(p.data))
            ELSE Sign(p.sample_std)
        diff == Sign(mean.num - mu0 * mean.den)
        t_stat == IF std_sign > 0
                  THEN [sign |-> diff, inf |-> FALSE]
                  ELSE IF diff # 0 THEN [sign |-> 1, inf |-> TRUE]
                  ELSE [sign |-> 0, inf |-> FALSE]
        p_value == PValue(t_stat, alternative)
        reject_null == RejectNull(p_value, alpha, below)
    IN  IF ~p.has_data /\ None \in {p.sample_mean, p.sample_std, p.n}
        THEN EndRun(self, Raised("ValueError", "run",
                 "Must provide either 'data' or all of: sample_mean, sample_std, n"))
        ELSE IF TTestTooSmall(n)
        THEN EndRun(self, Raised("ValueError", "run",
                 "Sample size must be greater than 1"))
        ELSE IF std_sign < 0
        THEN EndRun(self, Raised("ValueError", "run",
                 "Standard deviation cannot be negative"))
        ELSE IF alternative \notin Alternatives
        THEN EndRun(self, Raised("ValueError", "run",
                 "Alternative must be 'two-sided', 'greater', or 'less'"))
        ELSE EndRun(self, Returned(
            [test |-> "one_sample_t_test", alternative |-> alternative,
             alpha |-> alpha, degrees_of_freedom |-> n - 1],
            [test_statistic_position |-> t_stat],
            [sample_mean |-> mean, sample_size |-> n,
             hypothesized_mean |-> mu0, t_statistic |-> t_stat,
             degrees_of_freedom |-> n - 1, p_value |-> p_value,
             reject_null |-> reject_null,
             decision |-> IF reject_null THEN "Reject null hypothesis"
                          ELSE "Fail to reject null hypothesis"]))

\* a large-sample condition that wants more than 10 of each
ZTestConditionsMetStrict(n, p0) == n * p0 > 1000 /\ n * (100 - p0) > 1000

\* conditions_met: n * p0 >= 10 and n * (1 - p0) >= 10, p0 in percent
ZTestConditionsMet(n, p0) == n * p0 >= 1000 /\ n * (100 - p0) >= 1000

\* ZTestProportionSimulation.run.  p0 and alpha are in percent.  The
\* standard error is positive (floored by epsilon), so the statistic is
\* finite and has the sign of p_hat - p0.
ZTestRun(self0, p, below) ==
    LET self == EnterRun(self0, p)
        successes == Get(p.successes, 50)
        n == Get(p.n, 100)
        p0 == Get(p.p0, 50)
        alternative == GetStr(p.alternative, "two-sided")
        alpha == Get(p.alpha, 5)
        conditions_met == ZTestConditionsMet(n, p0)
        z_stat == [sign |-> Sign(100 * successes - p0 * n), inf |-> FALSE]
        p_value == PValue(z_stat, alternative)
        reject_null == RejectNull(p_value, alpha, below)
    IN  IF n <= 0
        THEN EndRun(self, Raised("ValueError", "run", "Sample size must be positive"))
        ELSE IF successes < 0 \/ successes > n
        THEN EndRun(self, Raised("ValueError", "run",
                 "Successes must be between 0 and n"))
        ELSE IF p0 <= 0 \/ p0 >= 100
        THEN EndRun(self, Raised("ValueError", "run",
                 "Hypothesized proportion must be between 0 and 1"))
        ELSE IF alternative \notin Alternatives
        THEN EndRun(self, Raised("ValueError", "run",
                 "Alternative must be 'two-sided', 'greater', or 'less'"))
        ELSE EndRun(self, Returned(
            [test |-> "one_proportion_z_test", alternative |-> alternative,
             alpha |-> alpha],
            [test_statistic_position |-> z_stat],
            [sample_proportion |-> [num |-> successes, den |-> n],
             hypothesized_proportion |-> p0, sample_size |-> n,
             successes |-> successes, z_statistic |-> z_stat,
             p_value |-> p_value, reject_null |-> reject_null,
             conditions |-> [met |-> conditions_met]]))

-----------------------------------------------------------------------------
(* The route POST /run/{simulation_id}: run_simulation *)

\* The handler is a coroutine that never awaits, so a request runs from
\* start to end without another request in between.  It draws from the
\* functions of module random, the generator of the whole process, which is
\* seeded from system entropy when the module is imported.  An exception
\* leaving the handler is the response of status 500.

\* random.choice(["H", "T"]) for one output of the generator
CoinFace(o) == <<"H", "T">>[PickIndex(o, 2)]

\* simulation 1: [response, draws taken], from generator state g
RouteCoinFlip(parameters, g) ==
    LET num_flips == Min(Get(parameters.num_flips, COIN_DEFAULT_FLIPS),
                         COIN_MAX_FLIPS)
        os == RngTake(g, num_flips)
        flips == [j \in 1..Len(os) |-> CoinFace(os[j])]
        heads_count == Len(SelectSeq(flips, LAMBDA f : f = "H"))
    IN  [draws |-> Len(os),
         response |->
            IF num_flips = 0
            THEN [status |-> 500, error |-> "ZeroDivisionError"]
            ELSE [status |-> 200, simulation_id |-> 1,
                  parameters |-> [num_flips |-> num_flips],
                  results |-> [total_flips |-> num_flips,
                               heads |-> heads_count,
                               tails |-> num_flips - heads_count,
                               heads_percentage |->
                                   [num |-> 100 * heads_count,
                                    den |-> num_flips]]]]

\* simulation 2: the sample means of random.uniform(0, 10), in units of
\* 1/Grid.  sum(sample) / len(sample) divides by zero when sample_size is 0
\* (in the first pass of the loop, before the second sample is drawn), and
\* sum(sample_means) / len(sample_means) when num_samples is not positive.
RouteClt(parameters, g) ==
    LET sample_size == Min(Get(parameters.sample_size,
                               ROUTE_DEFAULT_SAMPLE_SIZE),
                           ROUTE_MAX_SAMPLE_SIZE)
        num_samples == Min(Get(parameters.num_samples,
                               ROUTE_DEFAULT_NUM_SAMPLES),
                           ROUTE_MAX_NUM_SAMPLES)
        fails == num_samples <= 0 \/ sample_size <= 0
        n == IF fails THEN 0 ELSE num_samples * sample_size
        os == RngTake(g, n)
        sample_means ==
            [r \in 1..(IF fails THEN 0 ELSE num_samples) |->
                [num |-> SumSeq([c \in 1..sample_size |->
                                    10 * os[(r - 1) * sample_size + c]]),
                 den |-> Grid * sample_size]]
    IN  [draws |-> n,
         response |->
            IF fails
            THEN [status |-> 500, error |-> "ZeroDivisionError"]
            ELSE [status |-> 200, simulation_id |-> 2,
                  parameters |-> [sample_size |-> sample_size,
                                  num_samples |-> num_samples],
                  results |->
                     [sample_means |-> FirstN(sample_means, ROUTE_DISPLAY),
                      overall_mean |->
                         [num |-> SumSeq([r \in 1..num_samples |->
                                             sample_means[r].num]),
                          den |-> Grid * sample_size * num_samples],
                      expected_mean |-> 5]]]

\* any other simulation id
RouteNotImplemented ==
    [draws |-> 0,
     response |-> [status |-> 200, error |-> "Simulation not implemented yet"]]

\* run_simulation(simulation_id, parameters) with the generator in state g
RunSimulation(simulation_id, parameters, g) ==
    CASE simulation_id = 1 -> RouteCoinFlip(parameters, g)
      [] simulation_id = 2 -> RouteClt(parameters, g)
      [] OTHER -> RouteNotImplemented

-----------------------------------------------------------------------------
(* Lesson progress: the rows of user_progress and the routes' arithmetic *)

\* Scores are floats in the code; here they are whole numbers of 1/10000,
\* so SCORE_ONE is 1.0 and a score of 80 (percent) is 800000.

\* 1.0
SCORE_ONE == 10000

\* the 100.0 a score above 1.0 is divided by
SCORE_PERCENT == 100

\* 0.7, the score from which a lesson counts as completed
PASS_SCORE == 7000

\* x or 0
Or0(x) == IF x = None THEN 0 ELSE x

\* UserProgress(user_id=..., lesson_id=...): no column is set before the
\* flush (status is assigned by both routes before they commit)
NewUserProgress ==
    [status |-> "NEW", attempts_count |-> None, last_score |-> None,
     best_score |-> None, time_spent_seconds |-> None]

\* db.commit(): the column defaults fill what was never set
Commit(row) ==
    [row EXCEPT !.attempts_count = Or0(row.attempts_count),
                !.time_spent_seconds = Or0(row.time_spent_seconds)]

\* the row of (user_id, lesson_id), or a fresh object added to the session
RowOrNew(table, user_id, lesson_id) ==
    IF <<user_id, lesson_id>> \in DOMAIN table
    THEN table[<<user_id, lesson_id>>]
    ELSE NewUserProgress

\* the table with the row of (user_id, lesson_id) written
WithRow(table, user_id, lesson_id, row) ==
    [k \in DOMAIN table \cup {<<user_id, lesson_id>>} |->
        IF k = <<user_id, lesson_id>> THEN row ELSE table[k]]

\* the score on the scale 0.0 to 1.0: a raw score above 1.0 is a
\* percentage, and the result is clamped
NormalizeScore(raw_score) ==
    LET normalized == IF raw_score > SCORE_ONE
                      THEN raw_score \div SCORE_PERCENT
                      ELSE raw_score
    IN  Max(0, Min(SCORE_ONE, normalized))

\* a completion rule that wants more than the pass score
StatusForScoreStrict(normalized) ==
    IF normalized > PASS_SCORE THEN "COMPLETED" ELSE "STARTED"

\* ProgressStatus.COMPLETED if normalized >= 0.7 else ProgressStatus.STARTED
StatusForScore(normalized) ==
    IF normalized >= PASS_SCORE THEN "COMPLETED" ELSE "STARTED"

\* 15 if normalized >= 0.8 else 10 if normalized >= 0.6 else 5
XpEarned(normalized) ==
    IF normalized >= 8000 THEN 15 ELSE IF normalized >= 6000 THEN 10 ELSE 5

\* the row after start_lesson
StartedRow(row) == [row EXCEPT !.status = "STARTED"]

\* a completion that takes the latest score for the best one
CompletedRowBestIsLast(row, score, time_spent_seconds) ==
    LET normalized == NormalizeScore(score)
    IN  [status |-> StatusForScore(normalized),
         attempts_count |-> Or0(row.attempts_count) + 1,
         last_score |-> normalized,
         best_score |-> normalized,
         time_spent_seconds |->
             Or0(row.time_spent_seconds) + Max(0, time_spent_seconds)]

\* the row after complete_lesson(score, time_spent_seconds)
CompletedRow(row, score, time_spent_seconds) ==
    LET normalized == NormalizeScore(score)
    IN  [status |-> StatusForScore(normalized),
         attempts_count |-> Or0(row.attempts_count) + 1,
         last_score |-> normalized,
         best_score |-> IF row.best_score = None \/ row.best_score < normalized
                        THEN normalized ELSE row.best_score,
         time_spent_seconds |->
             Or0(row.time_spent_seconds) + Max(0, time_spent_seconds)]

\* compute_user_progress_summary, its count of completed lessons
ProgressSummary(table, user_id) ==
    [lessons_completed |->
        Cardinality({ k \in DOMAIN table :
                        /\ k[1] = user_id
                        /\ table[k].status \in {"COMPLETED", "MASTERED"} })]

\* the lessons joined with their level and module: the order_index of the
\* module, of the level and of the lesson.  Lesson 2 comes before lesson 1.
LessonRows ==
    { [id |-> 1, world_id |-> 1, module_order |-> 1, level_order |-> 2,
       lesson_order |-> 1],
      [id |-> 2, world_id |-> 1, module_order |-> 1, level_order |-> 1,
       lesson_order |-> 2] }

\* an ordering by the lesson's own order_index alone
LessonBeforeByLessonOrder(a, b) == a.lesson_order < b.lesson_order

\* order_by(Module.order_index, Level.order_index, Lesson.order_index)
LessonBefore(a, b) ==
    \/ a.module_order < b.module_order
    \/ /\ a.module_order = b.module_order
       /\ \/ a.level_order < b.level_order
          \/ /\ a.level_order = b.level_order
             /\ a.lesson_order < b.lesson_order

\* progress_map.get(lesson.id) for the rows of user_id
StatusOf(table, user_id, lesson_id) ==
    IF <<user_id, lesson_id>> \in DOMAIN table
    THEN table[<<user_id, lesson_id>>].status
    ELSE "none"

\* the loop of get_next_step over the lessons in order: the first lesson
\* with no row or a NEW or STARTED row, or null
NextStepResponse(table, user_id) ==
    LET open == { l \in LessonRows :
                    StatusOf(table, user_id, l.id) \in {"none", "NEW", "STARTED"} }
    IN  IF open = {} THEN [status_code |-> 200, type |-> "null"]
        ELSE LET lesson == CHOOSE l \in open :
                               \A m \in open : m # l => LessonBefore(l, m)
             IN  [status_code |-> 200, type |-> "lesson",
                  worldId |-> lesson.world_id, lessonId |-> lesson.id]

\* no get_next_step request has been served
NoNextStep == [user_id |-> None, response |-> [status_code |-> 0]]

-----------------------------------------------------------------------------
(* The event registry: subscribe, unsubscribe, emit_user_progress *)

\* asyncio.Queue(maxsize=100)
QUEUE_MAXSIZE == 1

\* the message emit_user_progress serializes
ProgressMessage(payload) == [type |-> "progressUpdated", payload |-> payload]

\* q.full()
QueueFull(q) == Len(q.items) >= QUEUE_MAXSIZE

\* a snapshot that takes the queues of every user
SubsOfAnyUser(registry, user_id) ==
    UNION { registry[u] : u \in DOMAIN registry }

\* _subs.get(user_id, set())
SubsOf(registry, user_id) ==
    IF user_id \in DOMAIN registry THEN registry[user_id] ELSE {}

\* list(set): the members of a set in any one order
Orders(S) ==
    { o \in [1..Cardinality(S) -> S] :
        \A i, j \in 1..Cardinality(S) : i # j => o[i] # o[j] }

\* the loop `for q in queues: await q.put(data)` from the queues still
\* pending, up to the first queue that is full: q.put suspends the
\* coroutine there until the queue has room.  Yields the queues after the
\* puts, the queues still pending and the queues put on.
RECURSIVE PutUntilFull(_, _, _)
PutUntilFull(qs, pending, data) ==
    IF pending = <<>>
    THEN [queues |-> qs, pending |-> <<>>, put_on |-> <<>>]
    ELSE IF QueueFull(qs[Head(pending)])
    THEN [queues |-> qs, pending |-> pending, put_on |-> <<>>]
    ELSE LET q == Head(pending)
             rest == PutUntilFull(
                         [qs EXCEPT ![q].items = Append(qs[q].items, data)],
                         Tail(pending), data)
         IN  [rest EXCEPT !.put_on = <<q>> \o rest.put_on]

-----------------------------------------------------------------------------
(* The quiz route: submit_quiz *)

\* Answers and stored answers are strings.  str.strip, str.lower and float
\* are tabulated on the strings the model uses; fractions of a numeric
\* answer are in thousandths.

\* s.strip()
Strip(s) ==
    CASE s = " A " -> "A"
      [] s = " mean" -> "mean"
      [] OTHER -> s

\* s.lower()
Lower(s) ==
    CASE s = "A" -> "a"
      [] s = "B" -> "b"
      [] s = "MEAN" -> "mean"
      [] s = "Mean" -> "mean"
      [] OTHER -> s

\* float(s): the number in thousandths, or None where float raises
\* ValueError
ParseFloat(s) ==
    CASE s = "0.5" -> 500
      [] s = "0.505" -> 505
      [] s = "0.6" -> 600
      [] OTHER -> None

\* the 0.01 used when a question has no numeric_tolerance
DEFAULT_TOLERANCE == 10

\* the pass mark of a quiz in tenths: score >= 0.7
QUIZ_PASS_TENTHS == 7

\* question_type.value read as the name of the enum member
QuestionTypeValueAsName(question_type) == question_type

\* question_type.value: the value of the QuestionType member, lower case
QuestionTypeValue(question_type) ==
    CASE question_type = "MCQ" -> "mcq"
      [] question_type = "NUMERIC" -> "numeric"
      [] question_type = "SHORT_TEXT" -> "short_text"
      [] OTHER -> "true_false"

\* table questions: lesson 1 has one question, lesson 2 has three, lesson 3
\* has none
QuestionRows ==
    { [id |-> 11, lesson_id |-> 1, question_type |-> "MCQ",
       correct_answer |-> "A", numeric_tolerance |-> None],
      [id |-> 21, lesson_id |-> 2, question_type |-> "SHORT_TEXT",
       correct_answer |-> "Mean", numeric_tolerance |-> None],
      [id |-> 22, lesson_id |-> 2, question_type |-> "NUMERIC",
       correct_answer |-> "0.5", numeric_tolerance |-> None],
      [id |-> 23, lesson_id |-> 2, question_type |-> "TRUE_FALSE",
       correct_answer |-> "true", numeric_tolerance |-> None] }

\* table lessons
QuizLessons == {1, 2, 3}

\* abs(x)
Abs(x) == IF x < 0 THEN 0 - x ELSE x

\* is_correct of one answer to one question
IsCorrect(question, user_answer) ==
    LET correct_answer == Strip(question.correct_answer)
        type == QuestionTypeValue(question.question_type)
    IN  IF type = "MCQ" THEN user_answer = correct_answer
        ELSE IF type = "SHORT_TEXT"
        THEN Lower(user_answer) = Lower(correct_answer)
        ELSE IF type = "NUMERIC"
        THEN LET user_num == ParseFloat(user_answer)
                 correct_num == ParseFloat(correct_answer)
                 tolerance == IF question.numeric_tolerance \in {None, 0}
                              THEN DEFAULT_TOLERANCE
                              ELSE question.numeric_tolerance
             IN  /\ user_num # None /\ correct_num # None
                 /\ Abs(user_num - correct_num) <= tolerance
        ELSE FALSE

\* the grading loop over answers from position k on: correct_count and
\* results
RECURSIVE GradeFrom(_, _, _)
GradeFrom(answers, questions, k) ==
    IF k > Len(answers) THEN [correct_count |-> 0, results |-> <<>>]
    ELSE LET answer_data == answers[k]
             user_answer == Strip(answer_data.answer)
             rest == GradeFrom(answers, questions, k + 1)
             found == { q \in questions : q.id = answer_data.question_id }
         IN  IF found = {} THEN rest
             ELSE LET question == CHOOSE q \in found : TRUE
                      is_correct == IsCorrect(question, user_answer)
                  IN  [correct_count |->
                           rest.correct_count + (IF is_correct THEN 1 ELSE 0),
                       results |->
                           <<[question_id |-> answer_data.question_id,
                              user_answer |-> user_answer,
                              correct_answer |-> Strip(question.correct_answer),
                              is_correct |-> is_correct]>> \o rest.results]

\* the response of POST /lesson/{lesson_id}/submit.  score is the fraction
\* correct_count / total_questions.
SubmitQuizResponse(lesson_id, answers) ==
    LET questions == { q \in QuestionRows : q.lesson_id = lesson_id }
        total_questions == Cardinality(questions)
        graded == GradeFrom(answers, questions, 1)
        score == [num |-> graded.correct_count, den |-> total_questions]
    IN  IF lesson_id \notin QuizLessons
        THEN [status_code |-> 404, detail |-> "Lesson not found"]
        ELSE IF questions = {}
        THEN [status_code |-> 404,
              detail |-> "No questions found for this lesson"]
        ELSE [status_code |-> 200,
              lesson_id |-> lesson_id,
              score |-> score,
              correct_count |-> graded.correct_count,
              total_questions |-> total_questions,
              passed |-> 10 * score.num >= QUIZ_PASS_TENTHS * score.den,
              results |-> graded.results]

\* no submit_quiz request has been served
NoQuiz == [lesson_id |-> None, answers |-> <<>>,
           response |-> [status_code |-> 0]]

-----------------------------------------------------------------------------
(* The effect-size classifiers of the two tests *)

\* Effect sizes are in hundredths.

\* the cut-offs 0.2, 0.5 and 0.8
EFFECT_SMALL == 20
EFFECT_MEDIUM == 50
EFFECT_LARGE == 80

\* a classifier whose cut-offs fall in the lower bucket
InterpretCohensDAtMost(d) ==
    IF d <= EFFECT_SMALL THEN "Small effect"
    ELSE IF d <= EFFECT_MEDIUM THEN "Small to medium effect"
    ELSE IF d <= EFFECT_LARGE THEN "Medium to large effect"
    ELSE "Large effect"

\* OneSampleTTestSimulation._interpret_cohens_d
InterpretCohensD(d) ==
    IF d < EFFECT_SMALL THEN "Small effect"
    ELSE IF d < EFFECT_MEDIUM THEN "Small to medium effect"
    ELSE IF d < EFFECT_LARGE THEN "Medium to large effect"
    ELSE "Large effect"

\* ZTestProportionSimulation._interpret_cohens_h
InterpretCohensH(h) ==
    IF h < EFFECT_SMALL THEN "Small effect"
    ELSE IF h < EFFECT_MEDIUM THEN "Medium effect"
    ELSE IF h < EFFECT_LARGE THEN "Large effect"
    ELSE "Very large effect"

\* 'effect_size' of the metrics of a test: the effect and the
\* interpretation of its absolute value
EffectSize(test, value) ==
    [test |-> test, value |-> value,
     interpretation |-> IF test = "t_test"
                        THEN InterpretCohensD(Abs(value))
                        ELSE InterpretCohensH(Abs(value))]

\* no effect size has been interpreted
NoEffect == [test |-> "none", value |-> 0, interpretation |-> ""]

-----------------------------------------------------------------------------
(* Inputs *)

\* the two simulation objects of the model
Slots == {1, 2}

\* the seeds a constructor is given
SeedArgs == {None} \cup 0..MaxSeed

PiParams ==
    [trials : {None} \cup 0..(MAX_SIMULATION_TRIALS + 1),
     batch_size : {None} \cup (0 - 1)..(PI_BATCH_CAP + 1),
     seed : {None, MaxSeed}]

BagColorsIn ==
    { <<>>,
      <<[color |-> "red", count |-> 0]>>,
      <<[color |-> "red", count |-> 1], [color |-> "blue", count |-> 1]>>,
      <<[color |-> "red", count |-> 2], [color |-> "blue", count |-> 1]>>,
      <<[color |-> "red", count |-> 2], [color |-> "blue", count |-> 0 - 1]>>,
      <<[color |-> "a", count |-> 1], [color |-> "a then a", count |-> 1],
        [color |-> "a then a then a", count |-> 1]>> }

BagParams ==
    [has_colors : {TRUE}, colors : BagColorsIn,
     draws : {None} \cup 0..3, replacement : {None, 1},
     trials : {None} \cup 0..TopCount]
    \cup
    [has_colors : {FALSE}, colors : {<<>>},
     draws : {None} \cup 0..3, replacement : {None, 1},
     trials : {None} \cup 0..TopCount]

CltDistParamsIn ==
    { [a |-> None, b |-> None, scale |-> None],
      [a |-> 0, b |-> 2, scale |-> 2] }

CltParams ==
    [distribution : {"", "uniform", "exponential", "binomial", "normal"},
     sample_size : {None} \cup 0..(MAX_SAMPLE_SIZE + 1),
     num_samples : {None} \cup 0..(MAX_SIMULATION_REPLICATES + 1),
     dist_params : CltDistParamsIn]

AlternativesIn == {"", "two-sided", "greater", "less", "sideways"}

TTestParams ==
    [has_data : {TRUE}, data : {<<5>>, <<1, 2, 3, 4, 5>>, <<3, 3, 3>>},
     sample_mean : {None}, sample_std : {None}, n : {None},
     mu0 : {None, 3, 4}, alternative : AlternativesIn,
     alpha : {None, 50, 60}]
    \cup
    [has_data : {FALSE}, data : {<<>>},
     sample_mean : {None, 3}, sample_std : {None, 0 - 1, 0, 2},
     n : {None, 1, 5},
     mu0 : {None, 3, 4}, alternative : AlternativesIn, alpha : {None, 60}]

ZTestParams ==
    [successes : {None, 0 - 1, 10, 101}, n : {None, 0, 20},
     p0 : {None, 0, 20, 80, 100}, alternative : AlternativesIn,
     alpha : {None, 60}]

\* the parameter dicts offered to two objects that run side by side
ConcPiParams ==
    [trials : {2, 3}, batch_size : {None, 1}, seed : {None}]

ConcBagParams ==
    [has_colors : {FALSE}, colors : {<<>>}, draws : {None},
     replacement : {None, 1}, trials : {1, 2}]

ConcCltParams ==
    [distribution : {"uniform", "exponential"}, sample_size : {None},
     num_samples : {MAX_SIMULATION_REPLICATES}, dist_params : CltDistParamsIn]

RouteCoinParams == [num_flips : {None} \cup 0..TopCount]

RouteCltParams ==
    [sample_size : {None} \cup 0..(ROUTE_MAX_SAMPLE_SIZE + 1),
     num_samples : {None} \cup 0..(ROUTE_MAX_NUM_SAMPLES + 1)]

RouteNoParams == [num_flips : {None}]

\* the users of the progress routes and of the event stream
Users == {1, 2}

\* the lessons of the content tables
Lessons == {1, 2}

\* the lesson ids requests ask for: the lessons and one that does not exist
LessonIdsIn == Lessons \cup {9}

\* the query parameters of complete_lesson: the raw scores -0.5, 0.69,
\* 0.7, 0.8, 1.5 and 70 (percent), each with a time_spent_seconds
AttemptsIn ==
    { [score |-> 0 - 5000, time_spent_seconds |-> 0 - 5],
      [score |-> 6900, time_spent_seconds |-> 120],
      [score |-> 7000, time_spent_seconds |-> 0],
      [score |-> 8000, time_spent_seconds |-> 120],
      [score |-> 15000, time_spent_seconds |-> 0 - 5],
      [score |-> 700000, time_spent_seconds |-> 60] }

-----------------------------------------------------------------------------
(* State machine *)

Init ==
    /\ inst = [i \in Slots |-> Unbuilt]
    /\ grng \in [seeded : EntropyPool, state : EntropyPool]
    /\ grng.seeded = grng.state
    /\ gdraws = 0
    /\ reqs = <<>>
    /\ progress = <<>>
    /\ subs = <<>>
    /\ queues = <<>>
    /\ calls = <<>>
    /\ next_step = NoNextStep
    /\ quiz = NoQuiz
    /\ effect = NoEffect

\* the object in slot i becomes self
Becomes(i, self) ==
    /\ inst' = [inst EXCEPT ![i] = self]
    /\ UNCHANGED <<grng, gdraws, reqs, quiz, effect>>
    /\ UNCHANGED web

\* run may be called on the object: it is between calls and has been
\* called fewer than max_runs times
CallAllowed(self, kind, max_runs) ==
    /\ self.kind = kind
    /\ self.pc = "idle"
    /\ self.runs < max_runs

\* the dicts run is called with: any offered one at the first call, and a
\* later call repeats the parameters of the first call
Offered(self, offered) ==
    IF self.runs = 0 THEN offered ELSE {self.params}

\* kind(seed)
Construct(i, kind, seed) ==
    /\ inst[i].pc = "unbuilt"
    /\ \E state \in default_rng(seed) :
          Becomes(i, NewSimulation(kind, seed, state))

PiCall(i, offered, max_runs) ==
    /\ CallAllowed(inst[i], "pi", max_runs)
    /\ \E p \in Offered(inst[i], offered) :
          Becomes(i, PiBegin(inst[i], p))

PiBatch(i) ==
    /\ inst[i].pc = "pi_loop"
    /\ PiInRange(inst[i].loc)
    /\ Becomes(i, PiBatchStep(inst[i]))

PiFinish(i) ==
    /\ inst[i].pc = "pi_loop"
    /\ ~PiInRange(inst[i].loc)
    /\ Becomes(i, PiEnd(inst[i]))

BagCall(i, offered, max_runs) ==
    /\ CallAllowed(inst[i], "bag", max_runs)
    /\ \E p \in Offered(inst[i], offered) :
          Becomes(i, BagBegin(inst[i], p))

BagTrial(i) ==
    /\ inst[i].pc = "bag_loop"
    /\ BagInRange(inst[i].loc)
    /\ Becomes(i, BagTrialStep(inst[i]))

BagFinish(i) ==
    /\ inst[i].pc = "bag_loop"
    /\ ~BagInRange(inst[i].loc)
    /\ Becomes(i, BagEnd(inst[i]))

CltCall(i, offered, max_runs) ==
    /\ CallAllowed(inst[i], "clt", max_runs)
    /\ \E p \in Offered(inst[i], offered) :
          Becomes(i, CltBegin(inst[i], p))

CltSample(i) ==
    /\ inst[i].pc = "clt_sample"
    /\ \E strict \in BOOLEAN : Becomes(i, CltSampleStep(inst[i], strict))

TTestCall(i, offered, max_runs) ==
    /\ CallAllowed(inst[i], "t_test", max_runs)
    /\ \E p \in Offered(inst[i], offered), below \in BOOLEAN :
          Becomes(i, TTestRun(inst[i], p, below))

ZTestCall(i, offered, max_runs) ==
    /\ CallAllowed(inst[i], "z_test", max_runs)
    /\ \E p \in Offered(inst[i], offered), below \in BOOLEAN :
          Becomes(i, ZTestRun(inst[i], p, below))

\* one request to the route, served from start to end
Request(simulation_id, parameters) ==
    /\ Len(reqs) < MaxReqs
    /\ LET r == RunSimulation(simulation_id, parameters, grng.state)
       IN  /\ reqs' = Append(reqs, [simulation_id |-> simulation_id,
                                    parameters |-> parameters,
                                    response |-> r.response])
           /\ grng' = [grng EXCEPT !.state = RngSkip(grng.state, r.draws)]
           /\ gdraws' = gdraws + r.draws
    /\ UNCHANGED <<inst, quiz, effect>>
    /\ UNCHANGED web

Kinds == {"pi", "clt", "t_test", "z_test", "bag"}

RandomizedKinds == {"pi", "clt", "bag"}

\* one simulation object, called again and again
Next ==
    \/ \E kind \in Kinds, seed \in SeedArgs : Construct(1, kind, seed)
    \/ PiCall(1, PiParams, MaxRuns)
    \/ PiBatch(1)
    \/ PiFinish(1)
    \/ BagCall(1, BagParams, MaxRuns)
    \/ BagTrial(1)
    \/ BagFinish(1)
    \/ CltCall(1, CltParams, MaxRuns)
    \/ CltSample(1)
    \/ TTestCall(1, TTestParams, MaxRuns)
    \/ ZTestCall(1, ZTestParams, MaxRuns)

Spec == Init /\ [][Next]_vars

\* two objects of the randomized variants, each called once, their steps
\* interleaved
NextConc ==
    \E i \in Slots :
        \/ \E kind \in RandomizedKinds, seed \in SeedArgs :
              Construct(i, kind, seed)
        \/ PiCall(i, ConcPiParams, 1)
        \/ PiBatch(i)
        \/ PiFinish(i)
        \/ BagCall(i, ConcBagParams, 1)
        \/ BagTrial(i)
        \/ BagFinish(i)
        \/ CltCall(i, ConcCltParams, 1)
        \/ CltSample(i)

SpecConc == Init /\ [][NextConc]_vars

\* the requests the route serves
NextRoute ==
    \/ \E p \in RouteCoinParams : Request(1, p)
    \/ \E p \in RouteCltParams : Request(2, p)
    \/ \E p \in RouteNoParams : Request(3, p)

SpecRoute == Init /\ [][NextRoute]_vars

-----------------------------------------------------------------------------
(* The progress routes and the event stream *)

\* Both routes are coroutines whose database work is synchronous; they
\* suspend only inside emit_user_progress, and there only in q.put on a
\* full queue (_lock is never held across a suspension, so taking it never
\* waits).  A request therefore runs without interruption up to its first
\* put on a full queue, and from each resumption to the next.

NoResponse == [status_code |-> 0]

\* a request that has just arrived
NewCall(op, user_id, lesson_id, score, time_spent_seconds) ==
    [op |-> op, user_id |-> user_id, lesson_id |-> lesson_id,
     score |-> score, time_spent_seconds |-> time_spent_seconds,
     pc |-> "run", data |-> ProgressMessage([lessons_completed |-> 0]),
     pending |-> <<>>, put_on |-> <<>>,
     ret |-> NoResponse, response |-> NoResponse]

\* the request returns: HTTPException or the handler's return value
Respond(call, response) ==
    [call EXCEPT !.pc = "done", !.ret = response, !.response = response]

\* the loop of emit_user_progress goes on for a call: it ends, and the
\* handler returns ret, or it suspends at a full queue
PutOn(call, r) ==
    [call EXCEPT !.pending = r.pending,
                 !.put_on = call.put_on \o r.put_on,
                 !.pc = IF r.pending = <<>> THEN "done" ELSE "put_wait",
                 !.response = IF r.pending = <<>> THEN call.ret
                              ELSE NoResponse]

\* await emit_user_progress(user_id, payload) followed by `return ret`
EmitAndReturn(call, payload, ret) ==
    \E order \in Orders(SubsOf(subs, call.user_id)) :
        LET data == ProgressMessage(payload)
            r == PutUntilFull(queues, order, data)
        IN  /\ queues' = r.queues
            /\ calls' = Append(calls,
                   PutOn([call EXCEPT !.data = data, !.ret = ret], r))

\* POST /lesson/{lesson_id}/start
StartLesson(user_id, lesson_id) ==
    /\ Len(calls) < MaxCalls
    /\ LET call == NewCall("start_lesson", user_id, lesson_id, None, None)
       IN  IF lesson_id \notin Lessons
           THEN /\ calls' = Append(calls,
                       Respond(call, [status_code |-> 404,
                                      detail |-> "Lesson not found"]))
                /\ UNCHANGED <<progress, queues>>
           ELSE LET row == Commit(StartedRow(
                               RowOrNew(progress, user_id, lesson_id)))
                    table == WithRow(progress, user_id, lesson_id, row)
                    summary == ProgressSummary(table, user_id)
                IN  /\ progress' = table
                    /\ EmitAndReturn(call, summary,
                           [status_code |-> 200,
                            message |-> "Lesson started",
                            lesson_id |-> lesson_id,
                            status |-> row.status,
                            overall_progress |-> summary])
    /\ UNCHANGED subs
    /\ UNCHANGED next_step
    /\ UNCHANGED sims

\* POST /lesson/{lesson_id}/complete
CompleteLesson(user_id, lesson_id, score, time_spent_seconds) ==
    /\ Len(calls) < MaxCalls
    /\ LET call == NewCall("complete_lesson", user_id, lesson_id, score,
                           time_spent_seconds)
           row == Commit(CompletedRow(
                      RowOrNew(progress, user_id, lesson_id),
                      score, time_spent_seconds))
           table == WithRow(progress, user_id, lesson_id, row)
           summary == ProgressSummary(table, user_id)
       IN  /\ progress' = table
           /\ EmitAndReturn(call, summary,
                  [status_code |-> 200,
                   message |-> "Lesson completed successfully!",
                   lesson_id |-> lesson_id,
                   user_id |-> user_id,
                   score |-> row.last_score,
                   xp_earned |-> XpEarned(row.last_score),
                   time_spent_seconds |-> time_spent_seconds,
                   new_status |-> row.status,
                   overall_progress |-> summary])
    /\ UNCHANGED subs
    /\ UNCHANGED next_step
    /\ UNCHANGED sims

\* a suspended q.put is resumed once its queue has room, and the loop of
\* emit_user_progress goes on from there
ResumePut(c) ==
    /\ c \in DOMAIN calls
    /\ calls[c].pc = "put_wait"
    /\ ~QueueFull(queues[Head(calls[c].pending)])
    /\ LET r == PutUntilFull(queues, calls[c].pending, calls[c].data)
       IN  /\ queues' = r.queues
           /\ calls' = [calls EXCEPT ![c] = PutOn(calls[c], r)]
    /\ UNCHANGED <<progress, subs>>
    /\ UNCHANGED next_step
    /\ UNCHANGED sims

\* GET /events up to the first chunk: subscribe(user_id).  The handler
\* keeps user_id and the queue q; connected tells that its generator is
\* still being read.
Subscribe(user_id) ==
    /\ Cardinality(DOMAIN queues) < MaxQueues
    /\ LET q == Cardinality(DOMAIN queues) + 1
       IN  /\ queues' = [k \in DOMAIN queues \cup {q} |->
                            IF k = q
                            THEN [user_id |-> user_id, items |-> <<>>,
                                  connected |-> TRUE]
                            ELSE queues[k]]
           /\ subs' = [k \in DOMAIN subs \cup {user_id} |->
                          IF k = user_id THEN SubsOf(subs, k) \cup {q}
                          ELSE subs[k]]
    /\ UNCHANGED <<progress, calls>>
    /\ UNCHANGED next_step
    /\ UNCHANGED sims

\* next_or_heartbeat takes the next item of the queue for the client
NextEvent(q) ==
    /\ q \in DOMAIN queues
    /\ queues[q].connected
    /\ queues[q].items # <<>>
    /\ queues' = [queues EXCEPT ![q].items = Tail(queues[q].items)]
    /\ UNCHANGED <<progress, subs, calls>>
    /\ UNCHANGED next_step
    /\ UNCHANGED sims

\* the client goes away: the generator's finally runs unsubscribe(user_id, q)
Unsubscribe(q) ==
    /\ q \in DOMAIN queues
    /\ queues[q].connected
    /\ LET user_id == queues[q].user_id
           left == SubsOf(subs, user_id) \ {q}
       IN  subs' = IF user_id \notin DOMAIN subs THEN subs
                   ELSE IF left = {}
                   THEN [k \in DOMAIN subs \ {user_id} |-> subs[k]]
                   ELSE [subs EXCEPT ![user_id] = left]
    /\ queues' = [queues EXCEPT ![q].connected = FALSE]
    /\ UNCHANGED <<progress, calls>>
    /\ UNCHANGED next_step
    /\ UNCHANGED sims

NextProgress ==
    \/ \E user_id \in Users, lesson_id \in LessonIdsIn :
          StartLesson(user_id, lesson_id)
    \/ \E user_id \in Users, lesson_id \in Lessons, a \in AttemptsIn :
          CompleteLesson(user_id, lesson_id, a.score, a.time_spent_seconds)
    \/ \E c \in 1..MaxCalls : ResumePut(c)
    \/ \E user_id \in Users : Subscribe(user_id)
    \/ \E q \in 1..MaxQueues : NextEvent(q)
    \/ \E q \in 1..MaxQueues : Unsubscribe(q)

\* the process-wide generator plays no part in these routes: one of its
\* states stands for all
InitProgress == Init /\ \A e \in EntropyPool : grng.state <= e

SpecProgress == InitProgress /\ [][NextProgress]_vars

\* GET /next, served from start to end: the handler reads the database and
\* writes nothing
GetNextStep(user_id) ==
    /\ next_step' = [user_id |-> user_id,
                     response |-> NextStepResponse(progress, user_id)]
    /\ UNCHANGED <<progress, subs, queues, calls>>
    /\ UNCHANGED sims

\* the progress routes without event-stream clients
NextSteps ==
    \/ \E user_id \in Users, lesson_id \in LessonIdsIn :
          StartLesson(user_id, lesson_id)
    \/ \E user_id \in Users, lesson_id \in Lessons, a \in AttemptsIn :
          CompleteLesson(user_id, lesson_id, a.score, a.time_spent_seconds)
    \/ \E user_id \in Users : GetNextStep(user_id)

SpecNext == InitProgress /\ [][NextSteps]_vars

-----------------------------------------------------------------------------
(* The quiz route *)

\* the items of an answers list
AnswerDataIn ==
    { [question_id |-> 11, answer |-> "A"],
      [question_id |-> 11, answer |-> " A "],
      [question_id |-> 11, answer |-> "B"],
      [question_id |-> 21, answer |-> "MEAN"],
      [question_id |-> 22, answer |-> "0.505"],
      [question_id |-> 22, answer |-> "abc"],
      [question_id |-> 23, answer |-> "true"],
      [question_id |-> 99, answer |-> "A"],
      [question_id |-> None, answer |-> ""] }

\* the longest answers list submitted
MaxAnswers == 2

\* the answers lists submitted
AnswersIn == UNION { [1..n -> AnswerDataIn] : n \in 0..MaxAnswers }

\* the lesson ids submitted to: 9 is no lesson
QuizLessonIdsIn == QuizLessons \cup {9}

\* POST /lesson/{lesson_id}/submit, served from start to end: the handler
\* reads the database and writes nothing
SubmitQuiz(lesson_id, answers) ==
    /\ quiz' = [lesson_id |-> lesson_id, answers |-> answers,
                response |-> SubmitQuizResponse(lesson_id, answers)]
    /\ UNCHANGED <<inst, grng, gdraws, reqs, effect>>
    /\ UNCHANGED web

NextQuiz ==
    \E lesson_id \in QuizLessonIdsIn, answers \in AnswersIn :
        SubmitQuiz(lesson_id, answers)

SpecQuiz == InitProgress /\ [][NextQuiz]_vars

-----------------------------------------------------------------------------
(* The effect-size classifiers *)

\* the largest absolute effect size interpreted, in hundredths
MaxEffect == 100

\* the effect sizes interpreted: cohens_d is any real number, cohens_h lies
\* between -pi and pi
EffectsIn == (0 - MaxEffect)..MaxEffect

\* the tests that report an effect size
EffectTests == {"t_test", "z_test"}

\* the effect size of one run is interpreted for its metrics
InterpretEffect(test, value) ==
    /\ effect' = EffectSize(test, value)
    /\ UNCHANGED <<inst, grng, gdraws, reqs, quiz>>
    /\ UNCHANGED web

NextEffect ==
    \E test \in EffectTests, value \in EffectsIn : InterpretEffect(test, value)

SpecEffect == InitProgress /\ [][NextEffect]_vars

-----------------------------------------------------------------------------
(* A whole call of run on a fresh object, for the randomized variants *)

\* the first step of run
BeginRun(self, p) ==
    CASE self.kind = "pi" -> PiBegin(self, p)
      [] self.kind = "bag" -> BagBegin(self, p)
      [] OTHER -> CltBegin(self, p)

\* one further step of run
StepRun(self, strict) ==
    CASE self.pc = "pi_loop" ->
            IF PiInRange(self.loc) THEN PiBatchStep(self) ELSE PiEnd(self)
      [] self.pc = "bag_loop" ->
            IF BagInRange(self.loc) THEN BagTrialStep(self) ELSE BagEnd(self)
      [] OTHER -> CltSampleStep(self, strict)

RECURSIVE RunToEnd(_, _)
RunToEnd(self, strict) ==
    IF self.pc = "idle" THEN self ELSE RunToEnd(StepRun(self, strict), strict)

\* what kind(seed).run(p) gives when nothing else runs (the two outcomes of
\* the CLT sampler are the two behaviours of scipy.stats.shapiro)
RunAlone(kind, seed, p) ==
    { RunToEnd(BeginRun(NewSimulation(kind, seed, SeedState(seed)), p),
               strict).out : strict \in BOOLEAN }

-----------------------------------------------------------------------------
(* Claims *)

\* an object that has ended a call of run and is between calls
Ended(self) == self.pc = "idle" /\ self.runs >= 1

EnvelopeKeys == {"meta", "series", "metrics"}

\* C1: calling run twice on the same simulation object with identical
\* parameters returns identical metrics; nothing left by the first call
\* (the position of the object's engine included) changes the second result.
\* (A later call of an object repeats the parameters of its first call.)
C1_RerunIdenticalMetrics ==
    \A i \in Slots :
        (/\ inst[i].kind \in RandomizedKinds /\ inst[i].seed # None
         /\ Ended(inst[i]) /\ inst[i].runs >= 2
         /\ inst[i].first.status = "returned"
         /\ inst[i].out.status = "returned")
        => inst[i].out.envelope.metrics = inst[i].first.envelope.metrics

\* C2: two objects of one kind, each freshly constructed with the same seed
\* and run once with identical parameters, return the same result.
C2_SameSeedSameResult ==
    \A i, j \in Slots :
        (/\ inst[i].kind = inst[j].kind
         /\ inst[i].seed # None /\ inst[i].seed = inst[j].seed
         /\ Ended(inst[i]) /\ inst[i].runs = 1
         /\ Ended(inst[j]) /\ inst[j].runs = 1
         /\ inst[i].params = inst[j].params)
        => inst[i].out = inst[j].out

C2_Witness ==
    /\ inst[1].kind = "pi" /\ inst[2].kind = "pi"
    /\ inst[1].seed # None /\ inst[1].seed = inst[2].seed
    /\ Ended(inst[1]) /\ Ended(inst[2])
    /\ inst[1].params = inst[2].params
    /\ inst[1].out.status = "returned"
    /\ inst[1].out.envelope.metrics.points_inside > 0

\* C3, for the simulation objects: under every interleaving, a seeded object
\* called once returns what a fresh object with that seed returns alone.
C3_ObjectsAsAlone ==
    \A i \in Slots :
        (/\ inst[i].kind \in RandomizedKinds /\ inst[i].seed # None
         /\ Ended(inst[i]) /\ inst[i].runs = 1)
        => inst[i].out \in RunAlone(inst[i].kind, inst[i].seed, inst[i].params)

\* C3: simulation invocations need no coordination: however the invocations
\* are interleaved, each returns the result it would return when run alone
\* with the same seed and parameters (for a request to the route: what the
\* process returns when that request is the only one it serves).
C3_EachAsAlone ==
    /\ C3_ObjectsAsAlone
    /\ \A k \in 1..Len(reqs) :
          reqs[k].response =
              RunSimulation(reqs[k].simulation_id, reqs[k].parameters,
                            grng.seeded).response

\* C4: every simulation draws from the generator of its own object; no
\* simulation served by the system draws from the process-wide generator.
C4_NoProcessWideDraws ==
    gdraws = 0 /\ grng.state = grng.seeded

\* C5: the trial counts and sample sizes of every variant are checked
\* against the configured maximum before the first loop iteration or draw
\* whose size depends on them.
C5_CostBoundedBeforeUse ==
    \A i \in Slots :
        /\ inst[i].pc = "pi_loop"
              => inst[i].loc.trials <= MAX_SIMULATION_TRIALS
        /\ inst[i].pc = "clt_sample"
              => /\ inst[i].loc.sample_size <= MAX_SAMPLE_SIZE
                 /\ inst[i].loc.num_samples <= MAX_SIMULATION_REPLICATES
        /\ inst[i].pc = "bag_loop"
              => inst[i].loc.trials <= MAX_SIMULATION_TRIALS

\* the parameter-domain failures of a call, read off its parameter dict
DomainFailure(kind, p) ==
    CASE kind = "pi" ->
            LET trials == Get(p.trials, PI_DEFAULT_TRIALS)
            IN  trials < 1 \/ trials > MAX_SIMULATION_TRIALS
      [] kind = "clt" ->
            GetStr(p.distribution, "uniform") \notin
                {"uniform", "exponential", "binomial"}
      [] kind = "bag" ->
            LET colors == IF p.has_colors THEN p.colors
                          ELSE BAG_DEFAULT_COLORS
            IN  /\ Get(p.replacement, 0) = 0
                /\ Get(p.draws, BAG_DEFAULT_DRAWS) > SumCounts(colors)
      [] kind = "t_test" ->
            \/ p.has_data /\ Len(p.data) <= 1
            \/ ~p.has_data /\ p.n # None /\ p.n <= 1
            \/ GetStr(p.alternative, "two-sided") \notin
                  {"two-sided", "greater", "less"}
      [] kind = "z_test" ->
            \/ Get(p.p0, 50) <= 0 \/ Get(p.p0, 50) >= 100
            \/ GetStr(p.alternative, "two-sided") \notin
                  {"two-sided", "greater", "less"}
      [] OTHER -> FALSE

C7_EnvelopeShape ==
    \A i \in Slots :
        inst[i].out.status = "returned" =>
            /\ DOMAIN inst[i].out.envelope = EnvelopeKeys
            /\ DOMAIN inst[i].out.envelope.metrics # {}

C7_Witness ==
    /\ inst[1].kind = "bag" /\ Ended(inst[1])
    /\ inst[1].out.status = "returned"
    /\ inst[1].out.envelope.metrics.unique_sequences_found > 1

\* C8: whenever a seed is supplied, the meta of the returned envelope holds
\* the seed the engine was seeded with, for every randomized variant.
C8_SeedInMeta ==
    \A i \in Slots :
        (/\ inst[i].kind \in RandomizedKinds /\ inst[i].seed # None
         /\ inst[i].out.status = "returned")
        => /\ "seed" \in DOMAIN inst[i].out.envelope.meta
           /\ inst[i].out.envelope.meta.seed = inst[i].seed

\* the range errors of a call, read off its parameter dict
RangeFailure(kind, p) ==
    CASE kind = "pi" ->
            LET trials == Get(p.trials, PI_DEFAULT_TRIALS)
            IN  trials < 1 \/ trials > MAX_SIMULATION_TRIALS
      [] kind = "clt" ->
            LET sample_size == Get(p.sample_size, CLT_DEFAULT_SAMPLE_SIZE)
                num_samples == Get(p.num_samples, CLT_DEFAULT_NUM_SAMPLES)
            IN  \/ sample_size < 1 \/ sample_size > MAX_SAMPLE_SIZE
                \/ num_samples < 1 \/ num_samples > MAX_SIMULATION_REPLICATES
      [] OTHER -> FALSE

\* C9: Pi-Estimation with trials outside [1, max] and the CLT sampler with
\* sample_size outside [1, 1000] or num_samples outside [1, MAX_REPLICATES]
\* fail with a range error of the shared validator before any draw; values
\* inside the ranges (bounds included) pass the validator.
C9_ValidatorRanges ==
    \A i \in Slots :
        inst[i].kind \in {"pi", "clt"} =>
            /\ inst[i].pc \in {"pi_loop", "clt_sample"}
                  => ~RangeFailure(inst[i].kind, inst[i].params)
            /\ Ended(inst[i]) =>
                  LET fails == RangeFailure(inst[i].kind, inst[i].params)
                      stopped == /\ inst[i].out.status = "raised"
                                 /\ inst[i].out.error = "ValueError"
                                 /\ inst[i].out.by = "validate_params"
                  IN  /\ fails => stopped /\ inst[i].drawn = 0
                      /\ stopped => fails

C9_Witness ==
    /\ inst[1].kind = "clt" /\ Ended(inst[1])
    /\ inst[1].params.sample_size = MAX_SAMPLE_SIZE
    /\ inst[1].params.num_samples = MAX_SIMULATION_REPLICATES + 1
    /\ inst[1].out.status = "raised"
    /\ inst[1].out.message = "num_samples"

\* C10: whenever Pi-Estimation returns, for every valid trials and every
\* batch_size, the batches partition the trials (every trial is drawn
\* exactly once: one x and one y), points_total = trials,
\* 0 <= points_inside <= trials, 0 <= proportion_inside <= 1 and
\* pi_estimate = 4 * points_inside / trials (0.0 or 4.0 when trials = 1).
C10_BatchesPartitionTrials ==
    \A i \in Slots :
        (/\ inst[i].kind = "pi" /\ Ended(inst[i])
         /\ inst[i].out.status = "returned")
        => LET m == inst[i].out.envelope.metrics
               trials == inst[i].out.envelope.meta.trials
           IN  /\ inst[i].drawn = 2 * trials
               /\ m.points_total = trials
               /\ 0 <= m.points_inside /\ m.points_inside <= trials
               /\ 0 <= m.proportion_inside /\ m.proportion_inside <= 1000000
               /\ m.pi_estimate = Round6(4 * m.points_inside, trials)
               /\ trials = 1 => m.pi_estimate \in {0, 4000000}

-----------------------------------------------------------------------------
(* Bag-Draw *)

\* the validation failures of a Bag-Draw call, read off its parameter dict:
\* an empty bag or a total of zero, draws < 1, more draws than items
\* without replacement
BagValidationFailure(p) ==
    LET colors == IF p.has_colors THEN p.colors ELSE BAG_DEFAULT_COLORS
        draws == Get(p.draws, BAG_DEFAULT_DRAWS)
    IN  \/ colors = <<>>
        \/ SumCounts(colors) = 0
        \/ draws < 1
        \/ Get(p.replacement, 0) = 0 /\ draws > SumCounts(colors)

\* C11: Bag-Draw fails validation, before any item is drawn, when the bag
\* is empty or its total is zero, when draws < 1, and when replacement is
\* false and draws exceeds the total; no result is returned then.
C11_BagValidation ==
    \A i \in Slots :
        inst[i].kind = "bag" =>
            /\ inst[i].pc = "bag_loop" => ~BagValidationFailure(inst[i].params)
            /\ (Ended(inst[i]) /\ BagValidationFailure(inst[i].params))
                  => /\ inst[i].out.status = "raised"
                     /\ inst[i].out.error = "ValueError"
                     /\ inst[i].drawn = 0

C11_Witness ==
    /\ inst[1].kind = "bag" /\ Ended(inst[1])
    /\ inst[1].params.has_colors /\ SumCounts(inst[1].params.colors) > 0
    /\ inst[1].params.draws = 0 /\ inst[1].params.replacement = 1
    /\ inst[1].out.status = "raised"
    /\ inst[1].out.message = "Must draw at least one item"

\* how many times the color c occurs in an outcome
Occurrences(outcome, c) ==
    Cardinality({ k \in 1..Len(outcome) : outcome[k] = c })

\* the dict {red: 1, blue: 1}
OneRedOneBlue ==
    <<[color |-> "red", count |-> 1], [color |-> "blue", count |-> 1]>>

\* C12: with non-negative counts the bag built for a run has as many items
\* as the counts sum to, more than zero; without replacement every recorded
\* outcome, after any number of trials, holds each color at most as often
\* as the bag holds it; so for {red: 1, blue: 1} and two draws every
\* outcome is (red, blue) or (blue, red) and all_same_color is 0.
C12_BagOutcomesWithinBag ==
    \A i \in Slots :
        /\ inst[i].pc = "bag_loop" =>
              LET l == inst[i].loc
                  nonneg == \A j \in 1..Len(l.colors) : l.colors[j].count >= 0
              IN  /\ nonneg => /\ Len(l.bag) = SumCounts(l.colors)
                               /\ Len(l.bag) > 0
                  /\ (nonneg /\ l.replacement = 0) =>
                        \A t \in 1..Len(l.outcomes) :
                            /\ Len(l.outcomes[t]) = l.draws
                            /\ \A k \in 1..l.draws :
                                  \E j \in 1..Len(l.colors) :
                                      l.outcomes[t][k] = l.colors[j].color
                            /\ \A j \in 1..Len(l.colors) :
                                  Occurrences(l.outcomes[t], l.colors[j].color)
                                      <= l.colors[j].count
                  /\ (l.colors = OneRedOneBlue /\ l.draws = 2
                                               /\ l.replacement = 0) =>
                        \A t \in 1..Len(l.outcomes) :
                            l.outcomes[t] \in {<<"red", "blue">>,
                                               <<"blue", "red">>}
        /\ (/\ inst[i].kind = "bag" /\ Ended(inst[i])
            /\ inst[i].out.status = "returned"
            /\ inst[i].out.envelope.meta.bag_contents = OneRedOneBlue
            /\ inst[i].out.envelope.meta.draws = 2
            /\ inst[i].out.envelope.meta.replacement = 0)
           => inst[i].out.envelope.metrics.special_events.all_same_color = 0

C12_Witness ==
    /\ inst[1].kind = "bag" /\ Ended(inst[1])
    /\ inst[1].out.status = "returned"
    /\ inst[1].out.envelope.meta.bag_contents = OneRedOneBlue
    /\ inst[1].out.envelope.meta.draws = 2
    /\ inst[1].out.envelope.meta.replacement = 0
    /\ inst[1].out.envelope.meta.trials >= 3
    /\ inst[1].out.envelope.metrics.unique_sequences_found = 2

\* the table holds one entry for every ordered pair of the colors, the
\* entry of the pair (c1, c2) under its key with the closed-form value
BagExactTable(colors, total, table) ==
    /\ Len(table) = Len(colors) * Len(colors)
    /\ \A j1, j2 \in 1..Len(colors) :
          LET c1 == colors[j1]
              c2 == colors[j2]
          IN  \E e \in 1..Len(table) :
                /\ table[e].key = BagPairKey(c1.color, c2.color)
                /\ table[e].value =
                      IF j1 = j2
                      THEN Round4(c1.count * (c1.count - 1),
                                  total * (total - 1))
                      ELSE Round4(c1.count * c2.count, total * (total - 1))

\* C13: when draws = 2 and replacement is false, exact_probabilities holds
\* one entry for every ordered color pair, (n1/total)*((n1-1)/(total-1))
\* for a same-color pair and (n1/total)*(n2/(total-1)) for a
\* different-color pair, rounded to four places (0.5 twice for
\* {red: 1, blue: 1}); total >= 2 there; in every other case
\* exact_probabilities is None.
C13_ExactProbabilities ==
    \A i \in Slots :
        (inst[i].kind = "bag" /\ Ended(inst[i])
                             /\ inst[i].out.status = "returned")
        => LET meta == inst[i].out.envelope.meta
               table == inst[i].out.envelope.metrics.exact_probabilities
           IN  IF meta.draws = 2 /\ meta.replacement = 0
               THEN /\ meta.total_items >= 2
                    /\ BagExactTable(meta.bag_contents, meta.total_items,
                                     table)
                    /\ meta.bag_contents = OneRedOneBlue =>
                          table = <<[key |-> "red then red", value |-> 0],
                                    [key |-> "red then blue", value |-> 5000],
                                    [key |-> "blue then red", value |-> 5000],
                                    [key |-> "blue then blue", value |-> 0]>>
               ELSE table = <<>>

\* C13 for bags whose colors are among red, blue and green
C13_ExactProbabilitiesPlainNames ==
    \A i \in Slots :
        (/\ inst[i].kind = "bag" /\ Ended(inst[i])
         /\ inst[i].out.status = "returned"
         /\ \A j \in 1..Len(inst[i].out.envelope.meta.bag_contents) :
               inst[i].out.envelope.meta.bag_contents[j].color
                   \in {"red", "blue", "green"})
        => LET meta == inst[i].out.envelope.meta
               table == inst[i].out.envelope.metrics.exact_probabilities
           IN  IF meta.draws = 2 /\ meta.replacement = 0
               THEN /\ meta.total_items >= 2
                    /\ BagExactTable(meta.bag_contents, meta.total_items,
                                     table)
               ELSE table = <<>>

-----------------------------------------------------------------------------
(* The hypothesis tests *)

\* the inputs the t-test refuses, read off its parameter dict: no data and
\* a summary value missing, n <= 1, a negative standard deviation
TTestInputFailure(p) ==
    IF p.has_data THEN Len(p.data) <= 1
    ELSE \/ p.sample_mean = None \/ p.sample_std = None \/ p.n = None
         \/ p.n <= 1
         \/ p.sample_std < 0

ZTestInputFailure(p) ==
    LET successes == Get(p.successes, 50)
        n == Get(p.n, 100)
        p0 == Get(p.p0, 50)
    IN  ~(n > 0 /\ 0 <= successes /\ successes <= n /\ 0 < p0 /\ p0 < 100)

ObservedEqualsHypothesized(kind, p) ==
    IF kind = "t_test"
    THEN IF p.has_data
         THEN SumSeq(p.data) = Get(p.mu0, 0) * Len(p.data)
         ELSE p.sample_mean = Get(p.mu0, 0)
    ELSE 100 * Get(p.successes, 50) = Get(p.p0, 50) * Get(p.n, 100)

\* C16: in both tests reject_null is true exactly when p_value < alpha;
\* when the observed value equals the hypothesized one the statistic is 0
\* and reject_null is False for each alternative at the default alpha.
C16_RejectNull ==
    \A i \in Slots :
        (inst[i].kind \in {"t_test", "z_test"} /\ Ended(inst[i])
                                              /\ inst[i].out.status = "returned")
        => LET m == inst[i].out.envelope.metrics
               alpha == inst[i].out.envelope.meta.alpha
               stat == IF inst[i].kind = "t_test" THEN m.t_statistic
                       ELSE m.z_statistic
           IN  /\ m.p_value.known => (m.reject_null <=> m.p_value.pct < alpha)
               /\ ObservedEqualsHypothesized(inst[i].kind, inst[i].params) =>
                     /\ stat = [sign |-> 0, inf |-> FALSE]
                     /\ m.p_value.known
                     /\ alpha = 5 => ~m.reject_null

C16_Witness ==
    /\ inst[1].kind = "t_test" /\ Ended(inst[1])
    /\ inst[1].params.has_data /\ inst[1].params.data = <<1, 2, 3, 4, 5>>
    /\ inst[1].params.mu0 = 3 /\ inst[1].params.alternative = "greater"
    /\ inst[1].params.alpha = None
    /\ inst[1].out.status = "returned"
    /\ inst[1].out.envelope.metrics.t_statistic.sign = 0
    /\ ~inst[1].out.envelope.metrics.reject_null

-----------------------------------------------------------------------------
(* The CLT sampler *)

\* the mean of replicate r of a CLT object about to sample: the mean of
\* the r-th run of sample_size consecutive draws of its engine
ReplicateMean(self, r) ==
    LET l == self.loc
        os == RngTake(self.rng, r * l.sample_size)
    IN  [num |-> SumSeq([c \in 1..l.sample_size |->
                            CltValue(l.distribution, l.dist_params,
                                     os[(r - 1) * l.sample_size + c])]),
         den |-> Grid * l.sample_size]

ClampedScore(score) ==
    LET n == IF score > SCORE_ONE THEN score \div SCORE_PERCENT ELSE score
    IN  IF n < 0 THEN 0 ELSE IF n > SCORE_ONE THEN SCORE_ONE ELSE n

\* the step is a complete_lesson request arriving and committing
CompleteLessonStep ==
    /\ Len(calls') = Len(calls) + 1
    /\ calls'[Len(calls')].op = "complete_lesson"

\* the requests so far are start_lesson and then complete_lesson with
\* score 0.8 by one user on one lesson
StartThenCompleteAt80 ==
    /\ Len(calls) = 2
    /\ calls[1].op = "start_lesson"
    /\ calls[1].lesson_id \in Lessons
    /\ calls[2].op = "complete_lesson"
    /\ calls[2].user_id = calls[1].user_id
    /\ calls[2].lesson_id = calls[1].lesson_id
    /\ calls[2].score = 8000

\* C18: complete_lesson(score) leaves the user's progress for the lesson
\* COMPLETED exactly when the normalized score (score/100 when score > 1.0,
\* else score, clamped to [0.0, 1.0]) is >= 0.7, and STARTED otherwise; a
\* start followed by a complete with score 0.8 ends in COMPLETED.
C18_CompletionByScore ==
    /\ [][CompleteLessonStep =>
            LET call == calls'[Len(calls')]
                row == progress'[<<call.user_id, call.lesson_id>>]
            IN  /\ ClampedScore(call.score) >= 7000
                    => row.status = "COMPLETED"
                /\ ClampedScore(call.score) < 7000
                    => row.status = "STARTED"]_vars
    /\ [](StartThenCompleteAt80 =>
            progress[<<calls[1].user_id, calls[1].lesson_id>>].status
                = "COMPLETED")

\* a lesson was started and then completed with score 0.8, and its row is
\* COMPLETED
C18_Witness ==
    /\ StartThenCompleteAt80
    /\ progress[<<calls[1].user_id, calls[1].lesson_id>>].status = "COMPLETED"
    /\ calls[2].response.status_code = 200


\* the end of batch k (from 0) of a Pi run
PiBatchEndOf(l, k) == Min(k * l.batch_size + l.batch_size, l.trials)

\* batch k of a Pi run has been processed
PiBatchDone(l, k) == k * l.batch_size < Min(l.batch_start, l.trials)

\* the cumulative count crosses a multiple of the checkpoint cadence during
\* batch k
PiCrossesCheckpoint(l, k) ==
    \E m \in 1..l.trials :
        /\ m % PI_CHECKPOINT = 0
        /\ k * l.batch_size < m
        /\ m <= PiBatchEndOf(l, k)

\* a running estimate was recorded at the count n
PiRecordedAt(l, n) ==
    \E j \in DOMAIN l.running_estimates : l.running_estimates[j].n = n

\* the estimate recorded last is 4 * inside / n of the count so far
PiLastEstimateRight(l) ==
    l.running_estimates # <<>> =>
        LET e == l.running_estimates[Len(l.running_estimates)]
        IN  e.n = Min(l.batch_start, l.trials) =>
                e.estimate = [num |-> 4 * l.inside_count, den |-> e.n]

\* C19: during a Pi-Estimation run, for any batch_size, every time the
\* cumulative processed count crosses a multiple of 1000, and when it
\* reaches trials, a running estimate {n, estimate = 4*inside/n} is
\* recorded for that point.
C19_EstimateAtEveryCheckpoint ==
    \A i \in Slots :
        (inst[i].pc = "pi_loop" /\ inst[i].loc.batch_size > 0) =>
            LET l == inst[i].loc
            IN  /\ \A k \in 0..MAX_SIMULATION_TRIALS :
                      (/\ PiBatchDone(l, k)
                       /\ \/ PiCrossesCheckpoint(l, k)
                          \/ PiBatchEndOf(l, k) = l.trials)
                      => PiRecordedAt(l, PiBatchEndOf(l, k))
                /\ PiLastEstimateRight(l)

\* what the loop does record: an estimate at every batch end that is itself
\* a multiple of the cadence or equals trials, and at no other count
C19_EstimateAtAlignedBatchEnds ==
    \A i \in Slots :
        (inst[i].pc = "pi_loop" /\ inst[i].loc.batch_size > 0) =>
            LET l == inst[i].loc
            IN  /\ \A k \in 0..MAX_SIMULATION_TRIALS :
                      PiBatchDone(l, k) =>
                          (PiRecordedAt(l, PiBatchEndOf(l, k))
                             <=> \/ PiBatchEndOf(l, k) % PI_CHECKPOINT = 0
                                 \/ PiBatchEndOf(l, k) = l.trials)
                /\ \A j \in DOMAIN l.running_estimates :
                      \E k \in 0..MAX_SIMULATION_TRIALS :
                          /\ PiBatchDone(l, k)
                          /\ l.running_estimates[j].n = PiBatchEndOf(l, k)
                /\ PiLastEstimateRight(l)

\* a batch has ended past a multiple of the cadence, short of trials and
\* not on a multiple
C19_CrossedInsideBatch ==
    \E i \in Slots :
        /\ inst[i].pc = "pi_loop" /\ inst[i].loc.batch_size > 0
        /\ \E k \in 0..MAX_SIMULATION_TRIALS :
              /\ PiBatchDone(inst[i].loc, k)
              /\ PiCrossesCheckpoint(inst[i].loc, k)
              /\ PiBatchEndOf(inst[i].loc, k) % PI_CHECKPOINT # 0
              /\ PiBatchEndOf(inst[i].loc, k) # inst[i].loc.trials


\* C20: emit_user_progress never waits on a slow subscriber: when a
\* subscriber's queue already holds its maximum of items, the new message is
\* dropped for that subscriber, and the emit (and the start_lesson /
\* complete_lesson request awaiting it) still completes and delivers to the
\* user's other subscribers.
C20_EmitNeverWaits ==
    \A c \in DOMAIN calls :
        /\ calls[c].pc = "done"
        /\ calls[c].pending = <<>>

\* a request waits in emit_user_progress only at a queue that is full, and
\* no queue ever holds more than its maximum
C20_WaitsOnlyOnFullQueue ==
    /\ \A q \in DOMAIN queues : Len(queues[q].items) <= QUEUE_MAXSIZE
    /\ \A c \in DOMAIN calls :
          /\ calls[c].pc \in {"done", "put_wait"}
          /\ calls[c].pc = "put_wait" =>
                /\ calls[c].pending # <<>>
                /\ calls[c].response = NoResponse
                /\ \A j \in 1..Len(calls[c].put_on) :
                      calls[c].put_on[j] # Head(calls[c].pending)
          /\ calls[c].pc = "done" => calls[c].pending = <<>>

\* a request waits on the full queue of a client that has gone away: nothing
\* will ever take an item from that queue
C20_WaitsOnAbandonedQueue ==
    \E c \in DOMAIN calls :
        /\ calls[c].pc = "put_wait"
        /\ ~queues[Head(calls[c].pending)].connected
        /\ QueueFull(queues[Head(calls[c].pending)])

\* a request waits on one full queue while another subscriber of the same
\* user, later in the loop, has not been sent the message
C20_OtherSubscriberKeptWaiting ==
    \E c \in DOMAIN calls :
        /\ calls[c].pc = "put_wait"
        /\ Len(calls[c].pending) > 1
        /\ \E j \in 2..Len(calls[c].pending) :
              queues[calls[c].pending[j]].items = <<>>


\* the statuses that count as finished
FinishedStatuses == {"COMPLETED", "MASTERED"}

\* C21: a lesson's progress status never regresses: once a user's progress
\* for a lesson is COMPLETED or MASTERED, no later start_lesson or
\* complete_lesson call for that user and lesson moves it back to STARTED.
C21_StatusNeverRegresses ==
    [][\A k \in DOMAIN progress :
          progress[k].status \in FinishedStatuses
              => progress'[k].status \in FinishedStatuses]_vars

\* a COMPLETED lesson was started again and its row reads STARTED
C21_RestartedAfterCompleted ==
    /\ Len(calls) = 2
    /\ calls[1].op = "complete_lesson" /\ calls[1].score = 8000
    /\ calls[2].op = "start_lesson"
    /\ calls[2].user_id = calls[1].user_id
    /\ calls[2].lesson_id = calls[1].lesson_id
    /\ progress[<<calls[1].user_id, calls[1].lesson_id>>].status = "STARTED"

\* a COMPLETED lesson was attempted again below the pass score and its row
\* reads STARTED
C21_FailedAfterCompleted ==
    /\ Len(calls) = 2
    /\ calls[1].op = "complete_lesson" /\ calls[1].score = 8000
    /\ calls[2].op = "complete_lesson" /\ calls[2].score = 6900
    /\ calls[2].user_id = calls[1].user_id
    /\ calls[2].lesson_id = calls[1].lesson_id
    /\ progress[<<calls[1].user_id, calls[1].lesson_id>>].status = "STARTED"


\* the standard error of a t-test call is 0: the sample standard deviation
\* is 0 (all data equal, or sample_std = 0 in the summary)
TTestZeroStandardError(p) ==
    IF p.has_data
    THEN Len(p.data) * SumSeq([j \in 1..Len(p.data) |-> p.data[j] * p.data[j]])
             = SumSeq(p.data) * SumSeq(p.data)
    ELSE p.sample_std = 0

\* the sign of sample mean - mu0 of a t-test call
TTestMeanAgainstMu0(p) ==
    IF p.has_data
    THEN Sign(SumSeq(p.data) - Get(p.mu0, 0) * Len(p.data))
    ELSE Sign(p.sample_mean - Get(p.mu0, 0))

\* a t-test call whose inputs pass the validation
TTestValidCall(self) ==
    /\ self.kind = "t_test" /\ Ended(self)
    /\ ~TTestInputFailure(self.params)
    /\ GetStr(self.params.alternative, "two-sided")
           \in {"two-sided", "greater", "less"}

\* C22: when the standard error of the t-test is 0 the run does not raise:
\* the t-statistic is +infinity when the sample mean is above mu0, -infinity
\* when it is below mu0, and 0 when it equals mu0.
C22_ZeroStandardError ==
    \A i \in Slots :
        (TTestValidCall(inst[i]) /\ TTestZeroStandardError(inst[i].params)) =>
            /\ inst[i].out.status = "returned"
            /\ inst[i].out.envelope.metrics.t_statistic =
                  [sign |-> TTestMeanAgainstMu0(inst[i].params),
                   inf |-> TTestMeanAgainstMu0(inst[i].params) # 0]

\* the part that holds: with a standard error of 0 the run returns, the
\* statistic is 0 when the mean equals mu0 and +infinity when it is above
C22_ZeroStandardErrorNotBelow ==
    \A i \in Slots :
        (/\ TTestValidCall(inst[i]) /\ TTestZeroStandardError(inst[i].params)
         /\ TTestMeanAgainstMu0(inst[i].params) >= 0) =>
            /\ inst[i].out.status = "returned"
            /\ inst[i].out.envelope.metrics.t_statistic =
                  [sign |-> TTestMeanAgainstMu0(inst[i].params),
                   inf |-> TTestMeanAgainstMu0(inst[i].params) # 0]

\* a run with standard error 0 and the mean below mu0 returned +infinity,
\* and the test for a greater mean rejected the null hypothesis
C22_PlusInfinityBelowMu0 ==
    \E i \in Slots :
        /\ TTestValidCall(inst[i]) /\ TTestZeroStandardError(inst[i].params)
        /\ TTestMeanAgainstMu0(inst[i].params) < 0
        /\ inst[i].out.status = "returned"
        /\ inst[i].out.envelope.metrics.t_statistic = [sign |-> 1, inf |-> TRUE]
        /\ inst[i].out.envelope.meta.alternative = "greater"
        /\ inst[i].out.envelope.metrics.reject_null


\* the step ends a Pi run of object i with a result
PiReturns(i) ==
    /\ inst[i].pc = "pi_loop"
    /\ inst'[i].pc = "idle"
    /\ inst'[i].out.status = "returned"

\* C23: the running_estimates returned by Pi-Estimation are the last 50
\* checkpoints recorded (all of them when fewer were recorded), in recording
\* order, with strictly increasing n, and for every run that processes at
\* least one batch the final entry has n = trials.
C23_LastCheckpointsReturned ==
    [][\A i \in Slots :
          PiReturns(i) =>
              LET recorded == inst[i].loc.running_estimates
                  returned == inst'[i].out.envelope.series.running_estimates
                  kept == IF Len(recorded) < PI_KEEP_LAST THEN Len(recorded)
                          ELSE PI_KEEP_LAST
              IN  /\ Len(returned) = kept
                  /\ \A j \in 1..kept :
                        returned[j] = recorded[Len(recorded) - kept + j]
                  /\ \A j \in 1..(Len(returned) - 1) :
                        returned[j].n < returned[j + 1].n
                  /\ inst[i].loc.batch_size > 0 =>
                        /\ returned # <<>>
                        /\ returned[Len(returned)].n = inst[i].loc.trials]_vars

\* a Pi run that recorded more checkpoints than are kept has returned the
\* kept ones, the last of them at n = trials
C23_Witness ==
    \E i \in Slots :
        /\ inst[i].kind = "pi" /\ Ended(inst[i])
        /\ inst[i].out.status = "returned"
        /\ inst[i].params.trials = MAX_SIMULATION_TRIALS
        /\ inst[i].params.batch_size = 1
        /\ LET returned == inst[i].out.envelope.series.running_estimates
           IN  /\ Len(returned) = PI_KEEP_LAST
               /\ returned[1].n = 4
               /\ returned[2].n = MAX_SIMULATION_TRIALS


\* how many results of the response mark question id as answered correctly
TimesCounted(results, id) ==
    Cardinality({ j \in DOMAIN results :
                    results[j].question_id = id /\ results[j].is_correct })

C24_NothingIsEverCorrect ==
    quiz.response.status_code = 200 =>
        /\ quiz.response.correct_count = 0
        /\ ~quiz.response.passed


\* C25: after any interleaving of subscribe, unsubscribe and
\* emit_user_progress, the registry never maps a user id to an empty set, a
\* queue is registered only under the user id it was subscribed with, and a
\* message emitted for one user is put only on queues that were subscribed
\* for that same user (never on another user's queue).
C25_RegistryConsistent ==
    /\ \A u \in DOMAIN subs : subs[u] # {}
    /\ \A u \in DOMAIN subs : \A q \in subs[u] :
          /\ q \in DOMAIN queues
          /\ queues[q].user_id = u
          /\ queues[q].connected
    /\ \A c \in DOMAIN calls :
          /\ \A j \in DOMAIN calls[c].put_on :
                queues[calls[c].put_on[j]].user_id = calls[c].user_id
          /\ \A j \in DOMAIN calls[c].pending :
                queues[calls[c].pending[j]].user_id = calls[c].user_id
    /\ \A q \in DOMAIN queues : \A j \in DOMAIN queues[q].items :
          \E c \in DOMAIN calls :
              /\ calls[c].user_id = queues[q].user_id
              /\ calls[c].data = queues[q].items[j]
              /\ \E k \in DOMAIN calls[c].put_on : calls[c].put_on[k] = q

\* both users had a subscriber, one of them has left and is gone from the
\* registry, and a request of the other user has put its message on that
\* user's queue alone
C25_Witness ==
    /\ Cardinality(DOMAIN queues) = 2
    /\ queues[1].user_id # queues[2].user_id
    /\ ~queues[2].connected
    /\ DOMAIN subs = {queues[1].user_id}
    /\ \E c \in DOMAIN calls :
          /\ calls[c].user_id = queues[1].user_id
          /\ calls[c].put_on = <<1>>
          /\ calls[c].pc = "done"
    /\ queues[2].items = <<>>


\* the positions in calls of the complete_lesson requests of a user on a
\* lesson
CompletionsOf(user_id, lesson_id) ==
    { c \in DOMAIN calls :
        /\ calls[c].op = "complete_lesson"
        /\ calls[c].user_id = user_id
        /\ calls[c].lesson_id = lesson_id }

\* the sum of max(0, time_spent_seconds) over the requests at positions S
RECURSIVE TimeOver(_)
TimeOver(S) ==
    IF S = {} THEN 0
    ELSE LET c == CHOOSE x \in S : TRUE
             t == calls[c].time_spent_seconds
         IN  (IF t > 0 THEN t ELSE 0) + TimeOver(S \ {c})

\* C26: after any sequence of complete_lesson calls by one user on one
\* lesson, attempts_count equals the number of calls, last_score is the
\* normalized score of the latest call, best_score is the maximum normalized
\* score over all calls (so 0 <= last_score <= best_score <= 1), and
\* time_spent_seconds is the sum of max(0, time) over the calls.
C26_AttemptCounters ==
    \A user_id \in Users, lesson_id \in Lessons :
        LET done == CompletionsOf(user_id, lesson_id)
        IN  done # {} =>
              LET row == progress[<<user_id, lesson_id>>]
                  latest == CHOOSE c \in done : \A d \in done : d <= c
              IN  /\ row.attempts_count = Cardinality(done)
                  /\ row.last_score = ClampedScore(calls[latest].score)
                  /\ \E c \in done : row.best_score = ClampedScore(calls[c].score)
                  /\ \A c \in done : ClampedScore(calls[c].score) <= row.best_score
                  /\ 0 <= row.last_score /\ row.last_score <= row.best_score
                  /\ row.best_score <= 10000
                  /\ row.time_spent_seconds = TimeOver(done)

\* one user has completed one lesson twice, with 0.8 and then with 0.69
C26_Witness ==
    /\ Len(calls) = 2
    /\ CompletionsOf(calls[1].user_id, calls[1].lesson_id) = {1, 2}
    /\ calls[1].score = 8000 /\ calls[2].score = 6900
    /\ LET row == progress[<<calls[1].user_id, calls[1].lesson_id>>]
       IN  /\ row.attempts_count = 2
           /\ row.last_score = 6900
           /\ row.best_score = 8000
           /\ row.time_spent_seconds = 240


\* the place of a lesson in the curriculum: module order, then level order,
\* then lesson order (each below 10)
CurriculumPlace(l) ==
    100 * l.module_order + 10 * l.level_order + l.lesson_order

\* the lesson is COMPLETED or MASTERED for the user
LessonFinished(user_id, l) ==
    /\ <<user_id, l.id>> \in DOMAIN progress
    /\ progress[<<user_id, l.id>>].status \in FinishedStatuses

\* the response is the first unfinished lesson of the user in curriculum
\* order, or null when there is none
RightNextStep(user_id, response) ==
    IF \A l \in LessonRows : LessonFinished(user_id, l)
    THEN response.type = "null"
    ELSE /\ response.type = "lesson"
         /\ \E l \in LessonRows :
               /\ l.id = response.lessonId
               /\ ~LessonFinished(user_id, l)
               /\ \A m \in LessonRows :
                     CurriculumPlace(m) < CurriculumPlace(l)
                         => LessonFinished(user_id, m)

C27_AllFinishedNull ==
    /\ next_step.user_id \in Users
    /\ \A l \in LessonRows : LessonFinished(next_step.user_id, l)
    /\ next_step.response.type = "null"

\* the user had completed a lesson, opened it again, and is sent back to it
C27_SentBackAfterRestart ==
    /\ Len(calls) = 2
    /\ calls[1].op = "complete_lesson" /\ calls[1].score = 8000
    /\ calls[1].lesson_id = 2
    /\ calls[2].op = "start_lesson" /\ calls[2].lesson_id = 2
    /\ calls[2].user_id = calls[1].user_id
    /\ next_step.user_id = calls[1].user_id
    /\ next_step.response.type = "lesson"
    /\ next_step.response.lessonId = 2


\* the step ends a Bag-Draw run of object i with a result
BagReturns(i) ==
    /\ inst[i].pc = "bag_loop"
    /\ inst'[i].pc = "idle"
    /\ inst'[i].out.status = "returned"

\* the drawn items of one trial all share one color
AllSameColor(outcome) ==
    \A a, b \in 1..Len(outcome) : outcome[a] = outcome[b]

\* the drawn items of one trial are pairwise distinct in color
AllDifferentColors(outcome) ==
    \A a, b \in 1..Len(outcome) : a # b => outcome[a] # outcome[b]

\* C28: in Bag-Draw, all_same_color is the fraction of trials whose drawn
\* items all share one color, and all_different_colors is the fraction of
\* trials whose drawn items are pairwise distinct in color when draws <=
\* number of distinct colors, and is reported as 0 when draws exceeds the
\* number of distinct colors.
C28_SpecialEvents ==
    [][\A i \in Slots :
          BagReturns(i) =>
              LET l == inst[i].loc
                  trials == 1..Len(l.outcomes)
                  events == inst'[i].out.envelope.metrics.special_events
                  distinct == Cardinality({ l.colors[j].color :
                                              j \in 1..Len(l.colors) })
                  same == Cardinality({ t \in trials :
                                          AllSameColor(l.outcomes[t]) })
                  different == Cardinality({ t \in trials :
                                          AllDifferentColors(l.outcomes[t]) })
              IN  /\ Len(l.outcomes) = l.trials
                  /\ events.all_same_color = Round4(same, l.trials)
                  /\ events.all_different_colors =
                        IF l.draws <= distinct
                        THEN Round4(different, l.trials)
                        ELSE 0]_vars

\* a run of three trials of two draws has returned all_same_color = 2/3 or
\* all_different_colors = 2/3: two trials share the event
C28_Witness ==
    \E i \in Slots :
        /\ inst[i].kind = "bag" /\ Ended(inst[i])
        /\ inst[i].out.status = "returned"
        /\ inst[i].out.envelope.meta.trials = 3
        /\ inst[i].out.envelope.meta.draws = 2
        /\ LET events == inst[i].out.envelope.metrics.special_events
           IN  \/ events.all_same_color = Round4(2, 3)
               \/ events.all_different_colors = Round4(2, 3)

\* a run with more draws than colors has returned all_different_colors 0
C28_MoreDrawsThanColors ==
    \E i \in Slots :
        /\ inst[i].kind = "bag" /\ Ended(inst[i])
        /\ inst[i].out.status = "returned"
        /\ inst[i].out.envelope.meta.draws = 3
        /\ Len(inst[i].out.envelope.meta.bag_contents) = 2
        /\ inst[i].out.envelope.metrics.special_events.all_different_colors = 0


\* how many trials drew the sequence seq
TimesDrawn(outcomes, seq) ==
    Cardinality({ t \in 1..Len(outcomes) : outcomes[t] = seq })

EffectBucket(a) == Cardinality({ c \in {20, 50, 80} : c <= a })

\* the names of the buckets of Cohen's d and of Cohen's h, lowest first
CohensDBuckets ==
    <<"Small effect", "Small to medium effect", "Medium to large effect",
      "Large effect">>

CohensHBuckets ==
    <<"Small effect", "Medium effect", "Large effect", "Very large effect">>

\* C30: both effect-size classifiers are total step functions of the
\* absolute effect size with cut-offs at 0.2, 0.5 and 0.8, a value equal to
\* a cut-off falling in the higher bucket: Cohen's d maps to small,
\* small-to-medium, medium-to-large, large; Cohen's h maps to small, medium,
\* large, very large; the sign of the effect never changes the bucket.
C30_EffectSizeBuckets ==
    effect.test # "none" =>
        LET a == IF effect.value < 0 THEN 0 - effect.value ELSE effect.value
        IN  /\ effect.test = "t_test" =>
                  effect.interpretation = CohensDBuckets[EffectBucket(a) + 1]
            /\ effect.test = "z_test" =>
                  effect.interpretation = CohensHBuckets[EffectBucket(a) + 1]

\* a Cohen's d of -0.5, on a cut-off and negative, was read as medium to
\* large
C30_Witness ==
    /\ effect.test = "t_test"
    /\ effect.value = 0 - 50
    /\ effect.interpretation = "Medium to large effect"

\* a Cohen's h of 0.8, on the last cut-off, was read as very large
C30_CohensHOnCutOff ==
    /\ effect.test = "z_test"
    /\ effect.value = 80
    /\ effect.interpretation = "Very large effect"

====
